---- MODULE Spec2Model ----
(***************************************************************************)
(* A model of the VeGen template compiler's type inference engine: the     *)
(* union-find store (type_system/uf.rs), the solver                        *)
(* (type_system/solver.rs), scheme instantiation and the environment       *)
(* (type_system/environment.rs), constraint generation                     *)
(* (type_system/infer.rs) and the compile driver (compile.rs).             *)
(*                                                                         *)
(* A Point<T> is an address into a store (a sequence of nodes); identity   *)
(* of points (Rc::ptr_eq) is equality of addresses.                        *)
(***************************************************************************)
EXTENDS Integers, Sequences, FiniteSets, TLC

VARIABLES
    points,       \* uf store under test: Seq of Node<T>
    ret,          \* value returned by the last uf call
    cls,          \* history: point -> set of points it was unioned with
    val,          \* history: point -> descriptor last written to its class
    heap,         \* InferContext and the points it created
    constraints,  \* the constraints solve has taken so far, in order
    result,       \* "" while solve runs (Ok), else the TypeError it returned
    prev,         \* history: heap before the last constraint was unified
    inst,         \* the instantiate call made on the heap, its argument and result
    prog,         \* the views of the template, in compilation order
    type_env,     \* compile's TypeEnv
    compiled_views, \* the ViewDefinitions compile has pushed
    pending,      \* the view compiled and not yet solved, if any
    error,        \* "" while compile runs, else the message of the Error it returned
    trace,        \* history: per compiled view, its component calls and switch cases
    expr_in,      \* the expression handed to expr_dependencies
    dependencies, \* the set expr_dependencies returned, once it has
    graph,        \* the view dependencies handed to topologically_sort_views
    sorted,       \* what it returned, once it has
    files,        \* the resolver: the node list of each template file there is
    loaded,       \* what load_ordered_views returned, once it has
    body,         \* the nodes of a view body the compile driver has yet to see
    js_view,      \* the CompileContext of the view: constructors and updaters
    update_lines, \* the update block render emitted for it, once it has
    env_t,        \* the Env under test with its InferContext
    env_was,      \* the same before the last push_scope, pop_scope or get
    env_log,      \* the calls made so far, each get with the type it returned
    flat,         \* a row with its three flattenings, once they are computed
    document,     \* the errors the loader returns for the document
    diagnostics   \* what collect returned for it, once it has

ufVars == <<points, ret, cls, val>>
solveVars == <<heap, constraints, result, prev>>
instVars == <<inst>>
compileVars == <<prog, type_env, compiled_views, pending, error, trace>>
depVars == <<expr_in, dependencies>>
topoVars == <<graph, sorted>>
loadVars == <<files, loaded>>
emitVars == <<body, js_view, update_lines>>
envVars == <<env_t, env_was, env_log>>
flatVars == <<flat>>
diagVars == <<document, diagnostics>>
restVars == <<depVars, topoVars, loadVars, emitVars, envVars, flatVars, diagVars>>
vars == <<points, ret, cls, val, heap, constraints, result, prev, inst,
         prog, type_env, compiled_views, pending, error, trace, restVars>>

(***************************************************************************)
(* Bounds                                                                  *)
(***************************************************************************)
MaxPoints == 4
NumDesc == 2

\* let v = ...; F(v): the value is computed once and bound
Let(v, F(_)) == F(v)

(***************************************************************************)
(* type_system/uf.rs                                                       *)
(***************************************************************************)
Info(id, rank, descriptor) ==
    [kind |-> "Info", id |-> id, rank |-> rank, descriptor |-> descriptor]

Link(parent) == [kind |-> "Link", parent |-> parent]

\* Point::new / fresh: a new root node appended to the store.
fresh(store, id, descriptor) == Append(store, Info(id, 0, descriptor))

\* Point::id: follows links without rewriting them.
RECURSIVE point_id(_, _)
point_id(store, point) ==
    IF store[point].kind = "Info" THEN store[point].id
    ELSE point_id(store, store[point].parent)

\* a slip find_root could make: the root is found and the chain is left as
\* it was
RECURSIVE find_root_keeps_links(_, _)
find_root_keeps_links(store, point) ==
    IF store[point].kind = "Info"
    THEN [store |-> store, root |-> point]
    ELSE Let(find_root_keeps_links(store, store[point].parent), LAMBDA r :
             [store |-> r.store, root |-> r.root])

\* find_root: returns the root and the store with the chain compressed.
RECURSIVE find_root(_, _)
find_root(store, point) ==
    IF store[point].kind = "Info"
    THEN [store |-> store, root |-> point]
    ELSE Let(find_root(store, store[point].parent), LAMBDA r :
             [store |-> [r.store EXCEPT ![point] = Link(r.root)], root |-> r.root])

get(store, point) ==
    Let(find_root(store, point), LAMBDA r :
        [store |-> r.store, descriptor |-> r.store[r.root].descriptor])

set(store, point, descriptor) ==
    Let(find_root(store, point), LAMBDA r :
        [r.store EXCEPT ![r.root].descriptor = descriptor])

\* a slip union could make: the descriptor is written to a's old root, which
\* is no longer the root when b's root has the higher rank
union_writes_old_root(store, a, b, descriptor) ==
    Let(find_root(store, a), LAMBDA ra :
    Let(find_root(ra.store, b), LAMBDA rb :
    LET s == [rb.store EXCEPT ![ra.root].descriptor = descriptor]
    IN  IF ra.root = rb.root THEN s
        ELSE IF s[ra.root].rank < s[rb.root].rank
        THEN [s EXCEPT ![ra.root] = Link(rb.root)]
        ELSE [s EXCEPT ![rb.root] = Link(ra.root),
                       ![ra.root].rank = IF s[ra.root].rank = s[rb.root].rank
                                         THEN @ + 1 ELSE @]))

union(store, a, b, descriptor) ==
    Let(find_root(store, a), LAMBDA ra :
    Let(find_root(ra.store, b), LAMBDA rb :
    LET s == rb.store
        root_a == ra.root
        root_b == rb.root
    IN  IF root_a = root_b THEN set(s, root_a, descriptor)
        ELSE LET rank_a == s[root_a].rank
                 rank_b == s[root_b].rank
                 parent == IF rank_a < rank_b THEN root_b ELSE root_a
                 child == IF rank_a < rank_b THEN root_a ELSE root_b
                 bump_rank == rank_a = rank_b
                 s1 == [s EXCEPT ![child] = Link(parent)]
                 s2 == IF bump_rank
                       THEN [s1 EXCEPT ![parent].rank = s1[parent].rank + 1]
                       ELSE s1
             IN  set(s2, parent, descriptor)))

redundant(store, point) == store[point].kind = "Link"

(***************************************************************************)
(* type_system/types.rs                                                    *)
(***************************************************************************)
Prim(name) == [k |-> "Prim", name |-> name]
Fun(args, res) == [k |-> "Fun", args |-> args, ret |-> res]
Array(elem) == [k |-> "Array", elem |-> elem]
Var(point) == [k |-> "Var", point |-> point]
Record(row) == [k |-> "Record", row |-> row]
DiscriminatedUnion(map) == [k |-> "DiscriminatedUnion", map |-> map]

Unbound(mark) == [k |-> "Unbound", mark |-> mark]
Bound(ty) == [k |-> "Bound", ty |-> ty]

RowExtend(fields, tail) == [k |-> "RowExtend", fields |-> fields, tail |-> tail]
RowFlex(mark) == [k |-> "RowFlex", mark |-> mark]

FreshMark(id) == [k |-> "Fresh", id |-> id]
Named(name) == [k |-> "Named", name |-> name]

Equal(span, t1, t2) == [span |-> span, t1 |-> t1, t2 |-> t2]

\* BTreeMap<Name, _>: a function on a finite set of names, iterated in the
\* order of the keys.  NameOrder lists the names of the model in string order.
NameOrder == <<"\"a\"", "\"b\"", "A", "B", "C", "D", "E", "a", "b", "c", "f", "i", "k", "type", "w", "x", "y", "z">>
EmptyMap == << >>
SortedKeys(S) == SelectSeq(NameOrder, LAMBDA name : name \in S)

(***************************************************************************)
(* type_system/environment.rs: InferContext.  The record h holds the two   *)
(* id counters together with the stores the points live in: tp for         *)
(* Point<Descriptor>, rp for Point<RowDescriptor>.                         *)
(***************************************************************************)
NewContext == [tp |-> << >>, rp |-> << >>, next_id |-> 0, next_row_id |-> 0]

fresh_descriptor(h, desc) ==
    [h |-> [h EXCEPT !.tp = fresh(h.tp, h.next_id, desc), !.next_id = h.next_id + 1],
     p |-> Len(h.tp) + 1]

fresh_point(h) == fresh_descriptor(h, Unbound(FreshMark(h.next_id)))

fresh_named(h, name) == fresh_descriptor(h, Unbound(Named(name)))

fresh_row(h, desc) ==
    [h |-> [h EXCEPT !.rp = fresh(h.rp, h.next_row_id, desc),
                     !.next_row_id = h.next_row_id + 1],
     p |-> Len(h.rp) + 1]

fresh_row_point(h) == fresh_row(h, RowFlex(FreshMark(h.next_row_id)))

fresh_row_extend(h, fields, ext) == fresh_row(h, RowExtend(fields, ext))

(***************************************************************************)
(* type_system/solver.rs.  Every operator takes the context h and returns  *)
(* it with the changes made.  The last parameter n bounds the depth of the *)
(* recursion: where the code would recurse or loop without end, the        *)
(* operator answers div (canonical_type, occurs, gather_fields) or the     *)
(* error "Diverge".                                                        *)
(***************************************************************************)
MaxDepth == 14

Ok(h) == [h |-> h, err |-> ""]
Err(h, e) == [h |-> h, err |-> e]

get_type(h, point) ==
    Let(get(h.tp, point), LAMBDA g :
        [h |-> [h EXCEPT !.tp = g.store], desc |-> g.descriptor])

get_row(h, point) ==
    Let(get(h.rp, point), LAMBDA g :
        [h |-> [h EXCEPT !.rp = g.store], desc |-> g.descriptor])

RECURSIVE canonical_type(_, _, _)
RECURSIVE canonical_types(_, _, _)
RECURSIVE canonical_fields(_, _, _, _)
RECURSIVE canonical_row_point(_, _, _)
RECURSIVE canonical_union(_, _, _, _)

canonical_type(h, ty, n) ==
    IF n = 0 THEN [h |-> h, ty |-> ty, div |-> TRUE]
    ELSE CASE ty.k = "Prim" -> [h |-> h, ty |-> ty, div |-> FALSE]
           [] ty.k = "Fun" ->
                Let(canonical_types(h, ty.args, n - 1), LAMBDA a :
                    IF a.div THEN [h |-> a.h, ty |-> ty, div |-> TRUE]
                    ELSE Let(canonical_type(a.h, ty.ret, n - 1), LAMBDA r :
                         [h |-> r.h, ty |-> Fun(a.tys, r.ty), div |-> r.div]))
           [] ty.k = "Array" ->
                Let(canonical_type(h, ty.elem, n - 1), LAMBDA e :
                    [h |-> e.h, ty |-> Array(e.ty), div |-> e.div])
           [] ty.k = "Var" ->
                Let(get_type(h, ty.point), LAMBDA g :
                    IF g.desc.k = "Bound"
                    THEN canonical_type(g.h, g.desc.ty, n - 1)
                    ELSE [h |-> g.h, ty |-> Var(ty.point), div |-> FALSE])
           [] ty.k = "Record" ->
                Let(canonical_row_point(h, ty.row, n - 1), LAMBDA r :
                    [h |-> r.h, ty |-> Record(r.row), div |-> r.div])
           [] ty.k = "DiscriminatedUnion" ->
                Let(canonical_union(h, ty.map, SortedKeys(DOMAIN ty.map), n - 1),
                    LAMBDA u :
                    [h |-> u.h, ty |-> DiscriminatedUnion(u.map), div |-> u.div])

canonical_types(h, tys, n) ==
    IF tys = << >> THEN [h |-> h, tys |-> << >>, div |-> FALSE]
    ELSE Let(canonical_type(h, Head(tys), n), LAMBDA x :
             IF x.div THEN [h |-> x.h, tys |-> tys, div |-> TRUE]
             ELSE Let(canonical_types(x.h, Tail(tys), n), LAMBDA rest :
                  [h |-> rest.h, tys |-> <<x.ty>> \o rest.tys, div |-> rest.div]))

canonical_fields(h, fields, keys, n) ==
    IF keys = << >> THEN [h |-> h, fields |-> EmptyMap, div |-> FALSE]
    ELSE Let(canonical_type(h, fields[Head(keys)], n), LAMBDA x :
             IF x.div THEN [h |-> x.h, fields |-> fields, div |-> TRUE]
             ELSE Let(canonical_fields(x.h, fields, Tail(keys), n), LAMBDA rest :
                  [h |-> rest.h, fields |-> (Head(keys) :> x.ty) @@ rest.fields,
                   div |-> rest.div]))

canonical_union(h, map, keys, n) ==
    IF keys = << >> THEN [h |-> h, map |-> EmptyMap, div |-> FALSE]
    ELSE Let(canonical_row_point(h, map[Head(keys)], n), LAMBDA x :
             IF x.div THEN [h |-> x.h, map |-> map, div |-> TRUE]
             ELSE Let(canonical_union(x.h, map, Tail(keys), n), LAMBDA rest :
                  [h |-> rest.h, map |-> (Head(keys) :> x.row) @@ rest.map,
                   div |-> rest.div]))

canonical_row_point(h, row_point, n) ==
    IF n = 0 THEN [h |-> h, row |-> row_point, div |-> TRUE]
    ELSE Let(get_row(h, row_point), LAMBDA g :
             IF g.desc.k = "RowFlex"
             THEN [h |-> g.h, row |-> row_point, div |-> FALSE]
             ELSE Let(canonical_fields(g.h, g.desc.fields,
                                       SortedKeys(DOMAIN g.desc.fields), n - 1),
                      LAMBDA f :
                  IF f.div THEN [h |-> f.h, row |-> row_point, div |-> TRUE]
                  ELSE Let(canonical_row_point(f.h, g.desc.tail, n - 1), LAMBDA t :
                       IF t.div THEN [h |-> t.h, row |-> row_point, div |-> TRUE]
                       ELSE [h |-> [t.h EXCEPT !.rp =
                                       fresh(t.h.rp, point_id(t.h.rp, row_point),
                                             RowExtend(f.fields, t.row))],
                             row |-> Len(t.h.rp) + 1, div |-> FALSE])))

\* the mark of the left side is kept, whatever it is
merge_marks_keeps_left(mark1, mark2) == mark1

merge_marks(mark1, mark2) ==
    IF mark1.k = "Named" THEN mark1
    ELSE IF mark2.k = "Named" THEN mark2
    ELSE mark1

RECURSIVE occurs(_, _, _, _)
RECURSIVE occurs_any(_, _, _, _)
RECURSIVE occurs_in_row(_, _, _, _)
RECURSIVE occurs_in_rows(_, _, _, _)

\* occurs: res is the answer; a point is compared by identity (&p == point).
occurs(h, point, ty, n) ==
    IF n = 0 THEN [h |-> h, res |-> FALSE, div |-> TRUE]
    ELSE Let(canonical_type(h, ty, n - 1), LAMBDA c :
         LET t == c.ty
         IN  IF c.div THEN [h |-> c.h, res |-> FALSE, div |-> TRUE]
             ELSE CASE t.k = "Var" -> [h |-> c.h, res |-> t.point = point, div |-> FALSE]
                    [] t.k = "Prim" -> [h |-> c.h, res |-> FALSE, div |-> FALSE]
                    [] t.k = "Fun" ->
                         Let(occurs_any(c.h, point, t.args, n - 1), LAMBDA a :
                             IF a.div \/ a.res THEN a
                             ELSE occurs(a.h, point, t.ret, n - 1))
                    [] t.k = "Array" -> occurs(c.h, point, t.elem, n - 1)
                    [] t.k = "Record" -> occurs_in_row(c.h, point, t.row, n - 1)
                    [] t.k = "DiscriminatedUnion" ->
                         occurs_in_rows(c.h, point,
                             [i \in 1..Len(SortedKeys(DOMAIN t.map)) |->
                                 t.map[SortedKeys(DOMAIN t.map)[i]]], n - 1))

\* the loops "for arg in args" / "for (_, ty) in fields" with their early return
occurs_any(h, point, tys, n) ==
    IF tys = << >> THEN [h |-> h, res |-> FALSE, div |-> FALSE]
    ELSE Let(occurs(h, point, Head(tys), n), LAMBDA x :
             IF x.div \/ x.res THEN x
             ELSE occurs_any(x.h, point, Tail(tys), n))

occurs_in_rows(h, point, rows, n) ==
    IF rows = << >> THEN [h |-> h, res |-> FALSE, div |-> FALSE]
    ELSE Let(occurs_in_row(h, point, Head(rows), n), LAMBDA x :
             IF x.div \/ x.res THEN x
             ELSE occurs_in_rows(x.h, point, Tail(rows), n))

occurs_in_row(h, point, row_point, n) ==
    IF n = 0 THEN [h |-> h, res |-> FALSE, div |-> TRUE]
    ELSE Let(get_row(h, row_point), LAMBDA g :
             IF g.desc.k = "RowFlex" THEN [h |-> g.h, res |-> FALSE, div |-> FALSE]
             ELSE LET keys == SortedKeys(DOMAIN g.desc.fields)
                  IN  Let(occurs_any(g.h, point,
                              [i \in 1..Len(keys) |-> g.desc.fields[keys[i]]], n - 1),
                          LAMBDA f :
                          IF f.div \/ f.res THEN f
                          ELSE occurs_in_row(f.h, point, g.desc.tail, n - 1)))

bind_variable(h, point, ty, n) ==
    Let(canonical_type(h, ty, n), LAMBDA c :
        IF c.div THEN Err(c.h, "Diverge")
        ELSE Let(occurs(c.h, point, c.ty, n), LAMBDA o :
             IF o.div THEN Err(o.h, "Diverge")
             ELSE IF o.res THEN Err(o.h, "OccursCheck")
             ELSE Ok([o.h EXCEPT !.tp = set(o.h.tp, point, Bound(c.ty))])))

\* gather_fields: the loop down the RowExtend chain; fields already gathered
\* take precedence (entry(name).or_insert(ty)).
RECURSIVE gather_fields(_, _, _, _)
gather_fields(h, fields, row_point, n) ==
    IF n = 0 THEN [h |-> h, fields |-> fields, tail |-> row_point, div |-> TRUE]
    ELSE Let(get_row(h, row_point), LAMBDA g :
             IF g.desc.k = "RowExtend"
             THEN gather_fields(g.h, fields @@ g.desc.fields, g.desc.tail, n - 1)
             ELSE [h |-> g.h, fields |-> fields, tail |-> row_point, div |-> FALSE])

RECURSIVE occurs_row_check(_, _, _, _)
RECURSIVE occurs_in_row_type(_, _, _, _)
RECURSIVE occurs_in_row_types(_, _, _, _)
RECURSIVE occurs_in_union_rows(_, _, _, _)

occurs_row_check(h, row_point, desc, n) ==
    IF n = 0 THEN [h |-> h, res |-> FALSE, div |-> TRUE]
    ELSE IF desc.k = "RowFlex" THEN [h |-> h, res |-> FALSE, div |-> FALSE]
    ELSE LET keys == SortedKeys(DOMAIN desc.fields)
         IN  Let(occurs_in_row_types(h, row_point,
                     [i \in 1..Len(keys) |-> desc.fields[keys[i]]], n - 1),
                 LAMBDA f :
                 IF f.div \/ f.res THEN f
                 ELSE IF desc.tail = row_point
                 THEN [h |-> f.h, res |-> TRUE, div |-> FALSE]
                 ELSE Let(get_row(f.h, desc.tail), LAMBDA g :
                          occurs_row_check(g.h, row_point, g.desc, n - 1)))

occurs_in_row_types(h, row_point, tys, n) ==
    IF tys = << >> THEN [h |-> h, res |-> FALSE, div |-> FALSE]
    ELSE Let(occurs_in_row_type(h, row_point, Head(tys), n), LAMBDA x :
             IF x.div \/ x.res THEN x
             ELSE occurs_in_row_types(x.h, row_point, Tail(tys), n))

occurs_in_row_type(h, row_point, ty, n) ==
    IF n = 0 THEN [h |-> h, res |-> FALSE, div |-> TRUE]
    ELSE CASE ty.k = "Var" -> [h |-> h, res |-> FALSE, div |-> FALSE]
           [] ty.k = "Prim" -> [h |-> h, res |-> FALSE, div |-> FALSE]
           [] ty.k = "Fun" ->
                Let(occurs_in_row_types(h, row_point, ty.args, n - 1), LAMBDA a :
                    IF a.div \/ a.res THEN a
                    ELSE occurs_in_row_type(a.h, row_point, ty.ret, n - 1))
           [] ty.k = "Array" -> occurs_in_row_type(h, row_point, ty.elem, n - 1)
           [] ty.k = "Record" ->
                IF ty.row = row_point THEN [h |-> h, res |-> TRUE, div |-> FALSE]
                ELSE Let(get_row(h, ty.row), LAMBDA g :
                         occurs_row_check(g.h, row_point, g.desc, n - 1))
           [] ty.k = "DiscriminatedUnion" ->
                occurs_in_union_rows(h, row_point,
                    [i \in 1..Len(SortedKeys(DOMAIN ty.map)) |->
                        ty.map[SortedKeys(DOMAIN ty.map)[i]]], n - 1)

occurs_in_union_rows(h, row_point, rows, n) ==
    IF rows = << >> THEN [h |-> h, res |-> FALSE, div |-> FALSE]
    ELSE IF Head(rows) = row_point THEN [h |-> h, res |-> TRUE, div |-> FALSE]
    ELSE Let(get_row(h, Head(rows)), LAMBDA g :
         Let(occurs_row_check(g.h, row_point, g.desc, n), LAMBDA x :
             IF x.div \/ x.res THEN x
             ELSE occurs_in_union_rows(x.h, row_point, Tail(rows), n)))

RECURSIVE unify(_, _, _, _)
RECURSIVE unify_args(_, _, _, _)
RECURSIVE unify_union(_, _, _, _, _)
RECURSIVE unify_points(_, _, _, _)
RECURSIVE unify_rows(_, _, _, _)
RECURSIVE unify_shared(_, _, _, _, _)
RECURSIVE unify_record_structure(_, _, _, _, _, _)

\* the arities are compared after the first pair of arguments is unified
unify_arity_late(h, t1, t2, n) ==
    IF n = 0 THEN Err(h, "Diverge")
    ELSE
    Let(canonical_type(h, t1, n - 1), LAMBDA c1 :
    IF c1.div THEN Err(c1.h, "Diverge")
    ELSE
    Let(canonical_type(c1.h, t2, n - 1), LAMBDA c2 :
    LET a == c1.ty
        b == c2.ty
        h2 == c2.h
    IN  IF c2.div THEN Err(c2.h, "Diverge")
        ELSE CASE a.k = "Var" /\ b.k = "Var" -> unify_points(h2, a.point, b.point, n - 1)
               [] a.k = "Var" /\ b.k # "Var" -> bind_variable(h2, a.point, b, n - 1)
               [] a.k # "Var" /\ b.k = "Var" -> bind_variable(h2, b.point, a, n - 1)
               [] a.k = "Fun" /\ b.k = "Fun" ->
                    IF Len(a.args) # Len(b.args)
                    THEN IF a.args = << >> \/ b.args = << >> THEN Err(h2, "ArityMismatch")
                         ELSE Let(unify(h2, a.args[1], b.args[1], n - 1), LAMBDA r :
                                  IF r.err # "" THEN r ELSE Err(r.h, "ArityMismatch"))
                    ELSE Let(unify_args(h2, a.args, b.args, n - 1), LAMBDA r :
                             IF r.err # "" THEN r
                             ELSE unify(r.h, a.ret, b.ret, n - 1))
               [] a.k = "Array" /\ b.k = "Array" -> unify(h2, a.elem, b.elem, n - 1)
               [] a.k = "Prim" /\ b.k = "Prim" ->
                    IF a.name = b.name THEN Ok(h2) ELSE Err(h2, "PrimMismatch")
               [] a.k = "Record" /\ b.k = "Record" -> unify_rows(h2, a.row, b.row, n - 1)
               [] a.k = "DiscriminatedUnion" /\ b.k = "DiscriminatedUnion" ->
                    IF SortedKeys(DOMAIN a.map) # SortedKeys(DOMAIN b.map)
                    THEN Err(h2, "UnionKeyMismatch")
                    ELSE unify_union(h2, a.map, b.map, SortedKeys(DOMAIN a.map), n - 1)
               [] OTHER -> Err(h2, "StructMismatch")))

unify(h, t1, t2, n) ==
    IF n = 0 THEN Err(h, "Diverge")
    ELSE
    Let(canonical_type(h, t1, n - 1), LAMBDA c1 :
    IF c1.div THEN Err(c1.h, "Diverge")
    ELSE
    Let(canonical_type(c1.h, t2, n - 1), LAMBDA c2 :
    LET a == c1.ty
        b == c2.ty
        h2 == c2.h
    IN  IF c2.div THEN Err(c2.h, "Diverge")
        ELSE CASE a.k = "Var" /\ b.k = "Var" -> unify_points(h2, a.point, b.point, n - 1)
               [] a.k = "Var" /\ b.k # "Var" -> bind_variable(h2, a.point, b, n - 1)
               [] a.k # "Var" /\ b.k = "Var" -> bind_variable(h2, b.point, a, n - 1)
               [] a.k = "Fun" /\ b.k = "Fun" ->
                    IF Len(a.args) # Len(b.args) THEN Err(h2, "ArityMismatch")
                    ELSE Let(unify_args(h2, a.args, b.args, n - 1), LAMBDA r :
                             IF r.err # "" THEN r
                             ELSE unify(r.h, a.ret, b.ret, n - 1))
               [] a.k = "Array" /\ b.k = "Array" -> unify(h2, a.elem, b.elem, n - 1)
               [] a.k = "Prim" /\ b.k = "Prim" ->
                    IF a.name = b.name THEN Ok(h2) ELSE Err(h2, "PrimMismatch")
               [] a.k = "Record" /\ b.k = "Record" -> unify_rows(h2, a.row, b.row, n - 1)
               [] a.k = "DiscriminatedUnion" /\ b.k = "DiscriminatedUnion" ->
                    IF SortedKeys(DOMAIN a.map) # SortedKeys(DOMAIN b.map)
                    THEN Err(h2, "UnionKeyMismatch")
                    ELSE unify_union(h2, a.map, b.map, SortedKeys(DOMAIN a.map), n - 1)
               [] OTHER -> Err(h2, "StructMismatch")))

\* for (a1, a2) in args1.iter().zip(args2.iter()) { unify(..)? }
unify_args(h, args1, args2, n) ==
    IF args1 = << >> THEN Ok(h)
    ELSE Let(unify(h, Head(args1), Head(args2), n), LAMBDA r :
             IF r.err # "" THEN r
             ELSE unify_args(r.h, Tail(args1), Tail(args2), n))

\* for (k, rp1) in m1.iter() { unify_rows(rp1, m2[k])? }
unify_union(h, m1, m2, keys, n) ==
    IF keys = << >> THEN Ok(h)
    ELSE Let(unify_rows(h, m1[Head(keys)], m2[Head(keys)], n), LAMBDA r :
             IF r.err # "" THEN r
             ELSE unify_union(r.h, m1, m2, Tail(keys), n))

\* two unbound variables are accepted as equal and left in their classes
unify_points_keeps_classes(h, p1, p2, n) ==
    IF p1 = p2 THEN Ok(h)
    ELSE Let(get_type(h, p1), LAMBDA g1 :
         Let(get_type(g1.h, p2), LAMBDA g2 :
         LET desc1 == g1.desc
             desc2 == g2.desc
         IN  IF n = 0 THEN Err(h, "Diverge")
             ELSE IF desc1.k = "Bound" THEN unify(g2.h, desc1.ty, Var(p2), n - 1)
             ELSE IF desc2.k = "Bound" THEN unify(g2.h, Var(p1), desc2.ty, n - 1)
             ELSE Ok(g2.h)))

unify_points(h, p1, p2, n) ==
    IF p1 = p2 THEN Ok(h)
    ELSE Let(get_type(h, p1), LAMBDA g1 :
         Let(get_type(g1.h, p2), LAMBDA g2 :
         LET desc1 == g1.desc
             desc2 == g2.desc
         IN  IF n = 0 THEN Err(h, "Diverge")
             ELSE IF desc1.k = "Bound" THEN unify(g2.h, desc1.ty, Var(p2), n - 1)
             ELSE IF desc2.k = "Bound" THEN unify(g2.h, Var(p1), desc2.ty, n - 1)
             ELSE Ok([g2.h EXCEPT !.tp =
                         union(g2.h.tp, p1, p2,
                               Unbound(merge_marks(desc1.mark, desc2.mark)))])))

unify_rows(h, r1, r2, n) ==
    IF r1 = r2 THEN Ok(h)
    ELSE IF n = 0 THEN Err(h, "Diverge")
    ELSE
    Let(get_row(h, r1), LAMBDA g1 :
    Let(get_row(g1.h, r2), LAMBDA g2 :
    LET desc1 == g1.desc
        desc2 == g2.desc
        h2 == g2.h
    IN  IF desc1.k = "RowFlex" /\ desc2.k = "RowFlex"
        THEN Ok([h2 EXCEPT !.rp =
                    union(h2.rp, r1, r2, RowFlex(merge_marks(desc1.mark, desc2.mark)))])
        ELSE IF desc1.k = "RowFlex" \/ desc2.k = "RowFlex"
        THEN LET desc == IF desc1.k = "RowFlex" THEN desc2 ELSE desc1
             IN  Let(occurs_row_check(h2, r1, desc, n - 1), LAMBDA o1 :
                 IF o1.div THEN Err(o1.h, "Diverge")
                 ELSE IF o1.res THEN Err(o1.h, "RowMismatch")
                 ELSE Let(occurs_row_check(o1.h, r2, desc, n - 1), LAMBDA o2 :
                      IF o2.div THEN Err(o2.h, "Diverge")
                      ELSE IF o2.res THEN Err(o2.h, "RowMismatch")
                      ELSE Ok([o2.h EXCEPT !.rp = union(o2.h.rp, r1, r2, desc)])))
        ELSE Let(gather_fields(h2, EmptyMap, r1, MaxDepth), LAMBDA structure1 :
             IF structure1.div THEN Err(structure1.h, "Diverge")
             ELSE Let(gather_fields(structure1.h, EmptyMap, r2, MaxDepth),
                      LAMBDA structure2 :
                  IF structure2.div THEN Err(structure2.h, "Diverge")
                  ELSE unify_record_structure(structure2.h,
                           structure1.fields, structure1.tail,
                           structure2.fields, structure2.tail, n - 1)))))

\* the loop over fields1 of unify_record_structure: unifies the shared fields
unify_shared(h, fields1, fields2, keys, n) ==
    IF keys = << >> THEN Ok(h)
    ELSE LET name == Head(keys)
         IN  Let(IF name \in DOMAIN fields2
                 THEN unify(h, fields1[name], fields2[name], n)
                 ELSE Ok(h),
                 LAMBDA r :
                 IF r.err # "" THEN r
                 ELSE unify_shared(r.h, fields1, fields2, Tail(keys), n))

Restrict(f, S) == [x \in S |-> f[x]]

\* a slip: the fields only the first row has are never given to the second
unify_record_structure_one_way(h, fields1, ext1, fields2, ext2, n) ==
    IF n = 0 THEN Err(h, "Diverge")
    ELSE
    Let(unify_shared(h, fields1, fields2, SortedKeys(DOMAIN fields1), n - 1),
        LAMBDA s :
    LET unique_fields2 == Restrict(fields2, DOMAIN fields2 \ DOMAIN fields1)
    IN  IF s.err # "" THEN s
        ELSE IF DOMAIN unique_fields2 = {} THEN unify_rows(s.h, ext1, ext2, n - 1)
        ELSE Let(fresh_row_extend(s.h, unique_fields2, ext2), LAMBDA sub_record :
                 unify_rows(sub_record.h, ext1, sub_record.p, n - 1)))

unify_record_structure(h, fields1, ext1, fields2, ext2, n) ==
    IF n = 0 THEN Err(h, "Diverge")
    ELSE
    Let(unify_shared(h, fields1, fields2, SortedKeys(DOMAIN fields1), n - 1),
        LAMBDA s :
    LET unique_fields1 == Restrict(fields1, DOMAIN fields1 \ DOMAIN fields2)
        unique_fields2 == Restrict(fields2, DOMAIN fields2 \ DOMAIN fields1)
    IN  IF s.err # "" THEN s
        ELSE IF DOMAIN unique_fields1 = {}
        THEN IF DOMAIN unique_fields2 = {}
             THEN unify_rows(s.h, ext1, ext2, n - 1)
             ELSE Let(fresh_row_extend(s.h, unique_fields2, ext2), LAMBDA sub_record :
                      unify_rows(sub_record.h, ext1, sub_record.p, n - 1))
        ELSE IF DOMAIN unique_fields2 = {}
        THEN Let(fresh_row_extend(s.h, unique_fields1, ext1), LAMBDA sub_record :
                 unify_rows(sub_record.h, sub_record.p, ext2, n - 1))
        ELSE Let(fresh_row_point(s.h), LAMBDA ext :
             Let(fresh_row_extend(ext.h, unique_fields1, ext.p), LAMBDA sub1 :
             Let(fresh_row_extend(sub1.h, unique_fields2, ext.p), LAMBDA sub2 :
             Let(unify_rows(sub2.h, ext1, sub2.p, n - 1), LAMBDA u1 :
                 IF u1.err # "" THEN u1
                 ELSE unify_rows(u1.h, sub1.p, ext2, n - 1))))))

(***************************************************************************)
(* type_system/environment.rs: view scheme instantiation.  s is the        *)
(* context together with the two maps of one instantiation, seen_vars and  *)
(* seen_rows, both keyed by Point::id.                                     *)
(***************************************************************************)
NewSeen(h) == [h |-> h, seen_vars |-> EmptyMap, seen_rows |-> EmptyMap]

RECURSIVE instantiate_type(_, _, _)
RECURSIVE instantiate_types(_, _, _)
RECURSIVE instantiate_fields(_, _, _, _)
RECURSIVE instantiate_branches(_, _, _, _)
RECURSIVE instantiate_var(_, _, _)
RECURSIVE instantiate_row(_, _, _, _)
RECURSIVE collect_row_fields(_, _, _)

instantiate_type(s, ty, n) ==
    IF n = 0 THEN [s |-> s, ty |-> ty, div |-> TRUE]
    ELSE CASE ty.k = "Prim" -> [s |-> s, ty |-> ty, div |-> FALSE]
           [] ty.k = "Fun" ->
                Let(instantiate_types(s, ty.args, n - 1), LAMBDA a :
                    IF a.div THEN [s |-> a.s, ty |-> ty, div |-> TRUE]
                    ELSE Let(instantiate_type(a.s, ty.ret, n - 1), LAMBDA r :
                         [s |-> r.s, ty |-> Fun(a.tys, r.ty), div |-> r.div]))
           [] ty.k = "Array" ->
                Let(instantiate_type(s, ty.elem, n - 1), LAMBDA e :
                    [s |-> e.s, ty |-> Array(e.ty), div |-> e.div])
           [] ty.k = "Var" -> instantiate_var(s, ty.point, n - 1)
           [] ty.k = "Record" ->
                Let(instantiate_row(s, ty.row, TRUE, n - 1), LAMBDA r :
                    [s |-> r.s, ty |-> Record(r.p), div |-> r.div])
           [] ty.k = "DiscriminatedUnion" ->
                Let(instantiate_branches(s, ty.map, SortedKeys(DOMAIN ty.map), n - 1),
                    LAMBDA u :
                    [s |-> u.s, ty |-> DiscriminatedUnion(u.map), div |-> u.div])

\* args.iter().map(|arg| instantiate_type(arg, ..)).collect()
instantiate_types(s, tys, n) ==
    IF tys = << >> THEN [s |-> s, tys |-> << >>, div |-> FALSE]
    ELSE Let(instantiate_type(s, Head(tys), n), LAMBDA x :
             IF x.div THEN [s |-> x.s, tys |-> tys, div |-> TRUE]
             ELSE Let(instantiate_types(x.s, Tail(tys), n), LAMBDA rest :
                  [s |-> rest.s, tys |-> <<x.ty>> \o rest.tys, div |-> rest.div]))

\* fields.iter().map(|(k, v)| (k, instantiate_type(v, ..))).collect()
instantiate_fields(s, fields, keys, n) ==
    IF keys = << >> THEN [s |-> s, fields |-> EmptyMap, div |-> FALSE]
    ELSE Let(instantiate_type(s, fields[Head(keys)], n), LAMBDA x :
             IF x.div THEN [s |-> x.s, fields |-> fields, div |-> TRUE]
             ELSE Let(instantiate_fields(x.s, fields, Tail(keys), n), LAMBDA rest :
                  [s |-> rest.s, fields |-> (Head(keys) :> x.ty) @@ rest.fields,
                   div |-> rest.div]))

\* branches.iter().map(|(k, p)| (k, instantiate_row(p, .., false))).collect()
instantiate_branches(s, map, keys, n) ==
    IF keys = << >> THEN [s |-> s, map |-> EmptyMap, div |-> FALSE]
    ELSE Let(instantiate_row(s, map[Head(keys)], FALSE, n), LAMBDA x :
             IF x.div THEN [s |-> x.s, map |-> map, div |-> TRUE]
             ELSE Let(instantiate_branches(x.s, map, Tail(keys), n), LAMBDA rest :
                  [s |-> rest.s, map |-> (Head(keys) :> x.p) @@ rest.map,
                   div |-> rest.div]))

\* a slip: the replacement of a class is not looked up, every occurrence of
\* an unbound variable gets a point of its own
instantiate_var_unshared(s, p, n) ==
    LET id == point_id(s.h.tp, p)
    IN  IF n = 0 THEN [s |-> s, ty |-> Var(p), div |-> TRUE]
        ELSE Let(get_type(s.h, p), LAMBDA g :
             IF g.desc.k = "Unbound"
             THEN Let(fresh_point(g.h), LAMBDA f :
                      [s |-> [s EXCEPT !.h = f.h,
                                       !.seen_vars = (id :> f.p) @@ s.seen_vars],
                       ty |-> Var(f.p), div |-> FALSE])
             ELSE instantiate_type([s EXCEPT !.h = g.h], g.desc.ty, n - 1))

instantiate_var(s, p, n) ==
    LET id == point_id(s.h.tp, p)
    IN  IF n = 0 THEN [s |-> s, ty |-> Var(p), div |-> TRUE]
        ELSE IF id \in DOMAIN s.seen_vars
        THEN [s |-> s, ty |-> Var(s.seen_vars[id]), div |-> FALSE]
        ELSE Let(get_type(s.h, p), LAMBDA g :
             IF g.desc.k = "Unbound"
             THEN Let(fresh_point(g.h), LAMBDA f :
                      [s |-> [s EXCEPT !.h = f.h,
                                       !.seen_vars = (id :> f.p) @@ s.seen_vars],
                       ty |-> Var(f.p), div |-> FALSE])
             ELSE instantiate_type([s EXCEPT !.h = g.h], g.desc.ty, n - 1))

\* the row a fresh row replaces is recorded under its id once it is built
instantiate_row(s, p, collect_fields, n) ==
    LET id == point_id(s.h.rp, p)
        seen(r) == [s |-> [r.s EXCEPT !.seen_rows = (id :> r.p) @@ r.s.seen_rows],
                    p |-> r.p, div |-> FALSE]
    IN  IF n = 0 THEN [s |-> s, p |-> p, div |-> TRUE]
        ELSE IF id \in DOMAIN s.seen_rows
        THEN [s |-> s, p |-> s.seen_rows[id], div |-> FALSE]
        ELSE Let(get_row(s.h, p), LAMBDA g :
             IF g.desc.k = "RowFlex"
             THEN Let(fresh_row_point(g.h), LAMBDA f :
                      seen([s |-> [s EXCEPT !.h = f.h], p |-> f.p]))
             ELSE IF collect_fields
             THEN Let(collect_row_fields([s EXCEPT !.h = g.h], p, n - 1), LAMBDA c :
                  IF c.div THEN [s |-> c.s, p |-> p, div |-> TRUE]
                  ELSE Let(fresh_row_extend(c.s.h, c.fields, c.tail), LAMBDA f :
                           seen([s |-> [c.s EXCEPT !.h = f.h], p |-> f.p])))
             ELSE Let(instantiate_fields([s EXCEPT !.h = g.h], g.desc.fields,
                                         SortedKeys(DOMAIN g.desc.fields), n - 1),
                      LAMBDA nf :
                  IF nf.div THEN [s |-> nf.s, p |-> p, div |-> TRUE]
                  ELSE Let(fresh_row_point(nf.s.h), LAMBDA fresh_rest :
                       Let(fresh_row_extend(fresh_rest.h, nf.fields, fresh_rest.p),
                           LAMBDA f :
                           seen([s |-> [nf.s EXCEPT !.h = f.h], p |-> f.p])))))

\* all_fields.append(&mut more_fields): a name of the rest of the chain
\* replaces the same name of this extension
collect_row_fields(s, p, n) ==
    IF n = 0 THEN [s |-> s, fields |-> EmptyMap, tail |-> p, div |-> TRUE]
    ELSE Let(get_row(s.h, p), LAMBDA g :
         IF g.desc.k = "RowFlex"
         THEN Let(fresh_row_point(g.h), LAMBDA f :
                  [s |-> [s EXCEPT !.h = f.h], fields |-> EmptyMap, tail |-> f.p,
                   div |-> FALSE])
         ELSE Let(instantiate_fields([s EXCEPT !.h = g.h], g.desc.fields,
                                     SortedKeys(DOMAIN g.desc.fields), n - 1),
                  LAMBDA all_fields :
              IF all_fields.div
              THEN [s |-> all_fields.s, fields |-> EmptyMap, tail |-> p, div |-> TRUE]
              ELSE Let(collect_row_fields(all_fields.s, g.desc.tail, n - 1),
                       LAMBDA more :
                       [s |-> more.s, fields |-> more.fields @@ all_fields.fields,
                        tail |-> more.tail, div |-> more.div])))

\* InferContext::instantiate
instantiate(h, ty) ==
    Let(instantiate_type(NewSeen(h), ty, MaxDepth), LAMBDA r :
        [h |-> r.s.h, ty |-> r.ty, div |-> r.div])

(***************************************************************************)
(* ast.rs, expr.rs: templates.  Spans only label errors and are left out;  *)
(* every constraint carries the span 0.                                    *)
(***************************************************************************)
Variable(name) == [k |-> "Variable", name |-> name]
Number == [k |-> "Number"]
StringTemplate(segments) == [k |-> "StringTemplate", segments |-> segments]
Field(rec, field_name) == [k |-> "Field", rec |-> rec, field_name |-> field_name]
FunctionCall(callee, args) == [k |-> "FunctionCall", callee |-> callee, args |-> args]
Pipe(left, right) == [k |-> "Pipe", left |-> left, right |-> right]

Literal(s) == [k |-> "Literal", s |-> s]
Interpolation(expr) == [k |-> "Interpolation", expr |-> expr]

Template(segments) == [k |-> "Template", segments |-> segments]
ExprValue(expr) == [k |-> "Expr", expr |-> expr]
Attr(name, value) == [name |-> name, value |-> value]

Element(name, attrs, children) ==
    [k |-> "Element", name |-> name, attrs |-> attrs, children |-> children]
ComponentCall(name, attrs, children) ==
    [k |-> "ComponentCall", name |-> name, attrs |-> attrs, children |-> children]
Text(content) == [k |-> "Text", content |-> content]
ExprNode(expr) == [k |-> "Expr", expr |-> expr]

(***************************************************************************)
(* builtins.rs                                                             *)
(***************************************************************************)
BuiltinPrim(name) == [k |-> "Prim", name |-> name]
BuiltinVar(id) == [k |-> "Var", id |-> id]

BUILTINS ==
    ("numberToString" :> [args |-> <<BuiltinPrim("number")>>,
                          ret |-> BuiltinPrim("string")])
    @@ ("boolean" :> [args |-> <<BuiltinPrim("boolean"), BuiltinVar(0), BuiltinVar(0)>>,
                      ret |-> BuiltinVar(0)])
    @@ ("lookup" :> [args |-> <<BuiltinVar(0), BuiltinPrim("string"), BuiltinVar(1)>>,
                     ret |-> BuiltinVar(1)])

(***************************************************************************)
(* expr.rs: expr_dependencies.  collect_path walks down from the           *)
(* expression with the field names met so far in current_path.             *)
(***************************************************************************)
\* current_path.into_iter().rev().join(".")
RECURSIVE join_rev(_)
join_rev(path) ==
    IF Len(path) = 0 THEN ""
    ELSE IF Len(path) = 1 THEN path[1]
    ELSE path[Len(path)] \o "." \o join_rev(SubSeq(path, 1, Len(path) - 1))

RECURSIVE collect_path(_, _, _)
RECURSIVE collect_paths(_, _)

\* a call that keeps the field names applied to its result
collect_path_keeps_path(node, current_path, out) ==
    IF node.k = "Variable"
    THEN Let(join_rev(Append(current_path, node.name)),
             LAMBDA dep : IF dep \in DOMAIN BUILTINS THEN out ELSE out \cup {dep})
    ELSE IF node.k = "Number" THEN out
    ELSE IF node.k = "Field"
    THEN collect_path(node.rec, Append(current_path, node.field_name), out)
    ELSE IF node.k = "FunctionCall"
    THEN collect_path(node.callee, current_path, collect_paths(node.args, out))
    ELSE IF node.k = "Pipe"
    THEN collect_path(node.right, << >>, collect_path(node.left, << >>, out))
    ELSE collect_paths(node.segments, out)

\* fn collect_path(expr, deps): the loop over node, with current_path
collect_path(node, current_path, out) ==
    IF node.k = "Variable"
    THEN Let(join_rev(Append(current_path, node.name)),
             LAMBDA dep : IF dep \in DOMAIN BUILTINS THEN out ELSE out \cup {dep})
    ELSE IF node.k = "Number" THEN out
    ELSE IF node.k = "Field"
    THEN collect_path(node.rec, Append(current_path, node.field_name), out)
    ELSE IF node.k = "FunctionCall"
    THEN collect_path(node.callee, << >>, collect_paths(node.args, out))
    ELSE IF node.k = "Pipe"
    THEN collect_path(node.right, << >>, collect_path(node.left, << >>, out))
    ELSE collect_paths(node.segments, out)

\* for arg in args { collect_path(arg, deps) }, and the same loop over the
\* interpolations of a string template
collect_paths(items, out) ==
    IF Len(items) = 0 THEN out
    ELSE collect_paths(Tail(items),
             IF Head(items).k = "Literal" THEN out
             ELSE IF Head(items).k = "Interpolation"
                  THEN collect_path(Head(items).expr, << >>, out)
                  ELSE collect_path(Head(items), << >>, out))

expr_dependencies(expr) == collect_path(expr, << >>, {})

(***************************************************************************)
(* type_system/environment.rs: Env.  t is the TypeEnv of compile.rs (env,  *)
(* infer_ctx, constraints, views); Env::get and infer take its fields.     *)
(***************************************************************************)
NewEnv == [scopes |-> << >>, globals |-> EmptyMap]

push_scope(env, scope) == [env EXCEPT !.scopes = Append(@, scope)]

pop_scope(env) == [env EXCEPT !.scopes = SubSeq(@, 1, Len(@) - 1)]

globals(env) == env.globals

\* every occurrence of a scheme variable gets a point of its own
instantiate_builtin_unshared(b, builtin_type) ==
    IF builtin_type.k = "Prim" THEN [b |-> b, ty |-> Prim(builtin_type.name)]
    ELSE Let(fresh_point(b.h), LAMBDA f :
             [b |-> [h |-> f.h, vars |-> (builtin_type.id :> f.p) @@ b.vars],
              ty |-> Var(f.p)])

\* fn instantiate(builtin_type, vars, ctx); b is ctx together with vars
instantiate_builtin(b, builtin_type) ==
    IF builtin_type.k = "Prim" THEN [b |-> b, ty |-> Prim(builtin_type.name)]
    ELSE IF builtin_type.id \in DOMAIN b.vars
    THEN [b |-> b, ty |-> Var(b.vars[builtin_type.id])]
    ELSE Let(fresh_point(b.h), LAMBDA f :
             [b |-> [h |-> f.h, vars |-> (builtin_type.id :> f.p) @@ b.vars],
              ty |-> Var(f.p)])

RECURSIVE instantiate_builtins(_, _)
instantiate_builtins(b, args) ==
    IF args = << >> THEN [b |-> b, tys |-> << >>]
    ELSE Let(instantiate_builtin(b, Head(args)), LAMBDA x :
         Let(instantiate_builtins(x.b, Tail(args)), LAMBDA rest :
             [b |-> rest.b, tys |-> <<x.ty>> \o rest.tys]))

get_builtin(h, name) ==
    IF name \notin DOMAIN BUILTINS THEN [h |-> h, some |-> FALSE, p |-> 0]
    ELSE Let(instantiate_builtins([h |-> h, vars |-> EmptyMap], BUILTINS[name].args),
             LAMBDA args :
         Let(instantiate_builtin(args.b, BUILTINS[name].ret), LAMBDA r :
         Let(fresh_descriptor(r.b.h, Bound(Fun(args.tys, r.ty))), LAMBDA f :
             [h |-> f.h, some |-> TRUE, p |-> f.p])))

\* self.scopes.iter().rev(): the innermost scope that has the name, or 0
\* the scopes are searched from the outermost one
find_scope_outermost(scopes, i, name) ==
    IF \A j \in 1..i : name \notin DOMAIN scopes[j] THEN 0
    ELSE CHOOSE j \in 1..i : /\ name \in DOMAIN scopes[j]
                             /\ \A m \in 1..(j - 1) : name \notin DOMAIN scopes[m]

RECURSIVE find_scope(_, _, _)
find_scope(scopes, i, name) ==
    IF i = 0 THEN 0
    ELSE IF name \in DOMAIN scopes[i] THEN i
    ELSE find_scope(scopes, i - 1, name)

Env_get(t, name) ==
    Let(find_scope(t.env.scopes, Len(t.env.scopes), name), LAMBDA i :
        IF i > 0 THEN [t |-> t, ty |-> t.env.scopes[i][name]]
        ELSE IF name \in DOMAIN t.env.globals
        THEN [t |-> t, ty |-> t.env.globals[name]]
        ELSE Let(get_builtin(t.infer_ctx, name), LAMBDA b :
             IF b.some THEN [t |-> [t EXCEPT !.infer_ctx = b.h], ty |-> Var(b.p)]
             ELSE Let(fresh_named(t.infer_ctx, name), LAMBDA f :
                  [t |-> [t EXCEPT !.infer_ctx = f.h,
                                   !.env.globals = (name :> Var(f.p)) @@ @],
                   ty |-> Var(f.p)])))

(***************************************************************************)
(* type_system/infer.rs                                                    *)
(***************************************************************************)
NoExpect == [k |-> "NoExpect"]
Expect(ty) == [k |-> "Expect", ty |-> ty]

expect_equal(t, actual, expected) ==
    IF expected.k = "Expect"
    THEN [t EXCEPT !.constraints = Append(@, Equal(0, actual, expected.ty))]
    ELSE t

\* args.iter().map(|arg| (arg, Type::Var(ctx.fresh_point())))
RECURSIVE fresh_arg_types(_, _)
fresh_arg_types(h, args) ==
    IF args = << >> THEN [h |-> h, tys |-> << >>]
    ELSE Let(fresh_point(h), LAMBDA f :
         Let(fresh_arg_types(f.h, Tail(args)), LAMBDA rest :
             [h |-> rest.h, tys |-> <<Var(f.p)>> \o rest.tys]))

RECURSIVE infer(_, _, _)
RECURSIVE infer_segments(_, _)
RECURSIVE infer_args(_, _, _)

infer(t, expr, expected) ==
    CASE expr.k = "Variable" ->
            Let(Env_get(t, expr.name), LAMBDA g :
                [t |-> expect_equal(g.t, g.ty, expected), ty |-> g.ty])
      [] expr.k = "Number" ->
            [t |-> expect_equal(t, Prim("number"), expected), ty |-> Prim("number")]
      [] expr.k = "StringTemplate" ->
            Let(infer_segments(t, expr.segments), LAMBDA s :
                [t |-> expect_equal(s, Prim("string"), expected), ty |-> Prim("string")])
      [] expr.k = "FunctionCall" ->
            Let(fresh_point(t.infer_ctx), LAMBDA fresh_ret :
            Let(fresh_arg_types(fresh_ret.h, expr.args), LAMBDA fresh_args :
            Let(infer([t EXCEPT !.infer_ctx = fresh_args.h], expr.callee,
                      Expect(Fun(fresh_args.tys, Var(fresh_ret.p)))), LAMBDA c :
            Let(infer_args(c.t, expr.args, fresh_args.tys), LAMBDA a :
                [t |-> expect_equal(a, Var(fresh_ret.p), expected),
                 ty |-> Var(fresh_ret.p)]))))
      [] expr.k = "Field" ->
            Let(fresh_point(t.infer_ctx), LAMBDA field_point :
            Let(fresh_row_point(field_point.h), LAMBDA tail_point :
            Let([h |-> [tail_point.h EXCEPT !.rp =
                           fresh(@, point_id(@, tail_point.p),
                                 RowExtend(expr.field_name :> Var(field_point.p),
                                           tail_point.p))],
                 p |-> Len(tail_point.h.rp) + 1], LAMBDA row_point :
            Let(infer([t EXCEPT !.infer_ctx = row_point.h], expr.rec,
                      Expect(Record(row_point.p))), LAMBDA r :
                [t |-> expect_equal(r.t, Var(field_point.p), expected),
                 ty |-> Var(field_point.p)]))))
      [] expr.k = "Pipe" ->
            IF expr.right.k = "FunctionCall"
            THEN infer(t, FunctionCall(expr.right.callee,
                                       <<expr.left>> \o expr.right.args), expected)
            ELSE infer(t, FunctionCall(expr.right, <<expr.left>>), expected)

\* for segment in segments: an interpolation is inferred against string
infer_segments(t, segments) ==
    IF segments = << >> THEN t
    ELSE IF Head(segments).k = "Interpolation"
    THEN Let(infer(t, Head(segments).expr, Expect(Prim("string"))), LAMBDA r :
             infer_segments(r.t, Tail(segments)))
    ELSE infer_segments(t, Tail(segments))

\* for (arg, ty) in fresh_arg_types
infer_args(t, args, tys) ==
    IF args = << >> THEN t
    ELSE Let(infer(t, Head(args), Expect(Head(tys))), LAMBDA r :
             infer_args(r.t, Tail(args), Tail(tys)))

(***************************************************************************)
(* ast_query.rs.  An Error is its message, abbreviated to one word; ""     *)
(* is Ok(()).  An Option is [some |-> FALSE] or [some |-> TRUE, v |-> _].  *)
(***************************************************************************)
None == [some |-> FALSE]
Some(v) == [some |-> TRUE, v |-> v]

(***************************************************************************)
(* graph.rs: cycle_from_stack and topo_sort.  deps is a function from the  *)
(* keys of the HashMap to sets of nodes; st holds state, stack, order and  *)
(* the Cycle returned, if any.                                             *)
(***************************************************************************)
\* iter().position(|n| n == node): the first index, 0 when there is none
position(s, node) ==
    IF \E i \in DOMAIN s : s[i] = node
    THEN CHOOSE i \in DOMAIN s : s[i] = node /\ \A j \in 1..(i - 1) : s[j] # node
    ELSE 0

\* the whole stack is taken for the cycle
cycle_from_stack_whole(stack, repeated) == Append(stack, repeated)

cycle_from_stack(stack, repeated) ==
    Let(Append(stack, repeated),
        LAMBDA cycle : SubSeq(cycle, position(cycle, repeated), Len(cycle)))

RECURSIVE visit(_, _, _)
RECURSIVE visit_children(_, _, _)

\* the nodes are marked Visited when they are entered, so none is ever seen
\* in state Visiting
visit_marks_early(node, deps, st) ==
    IF st.cycle.some THEN st
    ELSE IF node \in DOMAIN st.state THEN st
    ELSE Let(visit_children(
                 IF node \in DOMAIN deps THEN SortedKeys(deps[node]) ELSE << >>,
                 deps,
                 [st EXCEPT !.state = (node :> "Visited") @@ @,
                            !.stack = Append(@, node)]),
             LAMBDA s : IF s.cycle.some THEN s
                        ELSE [s EXCEPT !.stack = SubSeq(@, 1, Len(@) - 1),
                                       !.order = Append(@, node)])

visit(node, deps, st) ==
    IF st.cycle.some THEN st
    ELSE IF node \in DOMAIN st.state /\ st.state[node] = "Visited" THEN st
    ELSE IF node \in DOMAIN st.state
    THEN [st EXCEPT !.cycle =
             Some(Append(SubSeq(st.stack,
                                IF position(st.stack, node) = 0 THEN 1
                                ELSE position(st.stack, node), Len(st.stack)),
                         node))]
    ELSE Let(visit_children(
                 IF node \in DOMAIN deps THEN SortedKeys(deps[node]) ELSE << >>,
                 deps,
                 [st EXCEPT !.state = (node :> "Visiting") @@ @,
                            !.stack = Append(@, node)]),
             LAMBDA s : IF s.cycle.some THEN s
                        ELSE [s EXCEPT !.state = (node :> "Visited") @@ @,
                                       !.stack = SubSeq(@, 1, Len(@) - 1),
                                       !.order = Append(@, node)])

\* for child in child_nodes { visit(child, ..)? }
visit_children(nodes, deps, st) ==
    IF Len(nodes) = 0 \/ st.cycle.some THEN st
    ELSE visit_children(Tail(nodes), deps, visit(Head(nodes), deps, st))

\* each node is pushed before the nodes it references
topo_sort_parents_first(deps) ==
    Let(visit_children(SortedKeys(DOMAIN deps), deps,
                       [state |-> EmptyMap, stack |-> << >>, order |-> << >>,
                        cycle |-> None]),
        LAMBDA s : IF s.cycle.some THEN [ok |-> FALSE, nodes |-> s.cycle.v]
                   ELSE [ok |-> TRUE,
                         order |-> [i \in DOMAIN s.order |->
                                       s.order[Len(s.order) + 1 - i]]])

\* Ok(order) or Err(Cycle { nodes })
topo_sort(deps) ==
    Let(visit_children(SortedKeys(DOMAIN deps), deps,
                       [state |-> EmptyMap, stack |-> << >>, order |-> << >>,
                        cycle |-> None]),
        LAMBDA s : IF s.cycle.some THEN [ok |-> FALSE, nodes |-> s.cycle.v]
                   ELSE [ok |-> TRUE, order |-> s.order])

(***************************************************************************)
(* template/loader.rs: topologically_sort_views.  view_spans gives the     *)
(* name span of each view; an Error is its message, main span and labels.  *)
(***************************************************************************)
\* the segments joined by " -> "
RECURSIVE arrow_join(_)
arrow_join(segments) ==
    IF Len(segments) = 0 THEN ""
    ELSE IF Len(segments) = 1 THEN segments[1]
    ELSE segments[1] \o " -> " \o arrow_join(Tail(segments))

fallback_span == [start |-> 0, end |-> 0, context |-> 0]

RECURSIVE cycle_labels(_, _)
cycle_labels(nodes, view_spans) ==
    IF Len(nodes) = 0 THEN << >>
    ELSE (IF Head(nodes) \in DOMAIN view_spans
          THEN <<[span |-> view_spans[Head(nodes)],
                  text |-> Head(nodes) \o " participates in the cycle."]>>
          ELSE << >>)
         \o cycle_labels(Tail(nodes), view_spans)

topologically_sort_views(deps, view_spans) ==
    Let(topo_sort(deps),
        LAMBDA r :
          IF r.ok THEN r
          ELSE [ok |-> FALSE,
                nodes |-> r.nodes,
                errors |-> <<[message |-> "Circular component dependency: "
                                           \o arrow_join(r.nodes),
                              main_span |-> IF r.nodes[Len(r.nodes)] \in DOMAIN view_spans
                                            THEN view_spans[r.nodes[Len(r.nodes)]]
                                            ELSE fallback_span,
                              labels |-> cycle_labels(r.nodes, view_spans)]>>])


validate_single_child(children) ==
    IF Len(children) # 1 THEN "SingleChild" ELSE ""

validate_child_element_names(children, expected_names) ==
    IF \E i \in 1..Len(children) : children[i].k # "Element"
          /\ \A j \in 1..(i - 1) : children[j].k = "Element"
                                   /\ children[j].name \in expected_names
    THEN "ChildrenMustBeElements"
    ELSE IF \E i \in 1..Len(children) : children[i].k = "Element"
                                         /\ children[i].name \notin expected_names
    THEN "UnexpectedChild"
    ELSE ""

validate_all_children_are_elements(children) ==
    IF \E i \in 1..Len(children) : children[i].k # "Element"
    THEN "AllChildrenMustBeElements" ELSE ""

\* attrs.iter().find(|attr| attr.name == name): its position, or 0
find_attr(attrs, name) ==
    IF \E i \in 1..Len(attrs) : attrs[i].name = name
    THEN CHOOSE i \in 1..Len(attrs) :
            attrs[i].name = name /\ \A j \in 1..(i - 1) : attrs[j].name # name
    ELSE 0

find_binding_attr(attrs, name) ==
    Let(find_attr(attrs, name), LAMBDA i :
        IF i = 0 THEN [err |-> "MissingAttribute", expr |-> Number]
        ELSE IF attrs[i].value.k = "Expr"
        THEN [err |-> "", expr |-> attrs[i].value.expr]
        ELSE [err |-> "MustBeBinding", expr |-> Number])

find_literal_attr(attrs, name) ==
    Let(find_attr(attrs, name), LAMBDA i :
        IF i = 0 THEN [err |-> "MissingAttribute", s |-> ""]
        ELSE IF attrs[i].value.k = "Expr"
        THEN [err |-> "MustBeLiteralNotBinding", s |-> ""]
        ELSE IF Len(attrs[i].value.segments) # 1
        THEN [err |-> "MustBeSimpleLiteral", s |-> ""]
        ELSE IF attrs[i].value.segments[1].k = "Literal"
        THEN [err |-> "", s |-> attrs[i].value.segments[1].s]
        ELSE [err |-> "MustBeLiteral", s |-> ""])

\* attribute_types.json: the table of the DOM attribute types
ATTRIBUTE_TYPES == ("input" :> ("checked" :> "boolean" @@ "value" :> "string"))

attribute_type(tag, attr) ==
    IF tag \in DOMAIN ATTRIBUTE_TYPES /\ attr \in DOMAIN ATTRIBUTE_TYPES[tag]
    THEN Some(ATTRIBUTE_TYPES[tag][attr]) ELSE None

infer_attr_type(attr, tag) ==
    IF attribute_type(tag, attr).some THEN attribute_type(tag, attr).v ELSE "string"

has_bindings(value) ==
    \/ value.k = "Expr"
    \/ \E i \in 1..Len(value.segments) : value.segments[i].k = "Interpolation"

\* HashSet::into_iter().collect(): every element once, in an order the code
\* does not fix; render, the one reader of the list, sorts it first
RECURSIVE into_vec(_)
into_vec(elems) ==
    IF elems = {} THEN << >>
    ELSE Let(CHOOSE d \in elems : TRUE, LAMBDA d : <<d>> \o into_vec(elems \ {d}))

\* for seg in segments { if let Expr(expr) = seg { deps.extend(..) } }
RECURSIVE extend_deps(_, _)
extend_deps(deps, segments) ==
    IF segments = << >> THEN deps
    ELSE IF Head(segments).k = "Interpolation"
    THEN extend_deps(deps \o into_vec(expr_dependencies(Head(segments).expr)),
                     Tail(segments))
    ELSE extend_deps(deps, Tail(segments))

collect_attr_dependencies(value) ==
    IF value.k = "Template" THEN extend_deps(<< >>, value.segments)
    ELSE into_vec(expr_dependencies(value.expr))

\* the names of the model that begin with "data-", with what follows the prefix
DataAttributes == ("data-id" :> "id")

split_data_attribute(attr_name) ==
    IF attr_name \in DOMAIN DataAttributes THEN Some(DataAttributes[attr_name])
    ELSE None

find_unique_child_by_name(children, name) ==
    LET matches == SelectSeq(children, LAMBDA child :
                                 child.k = "Element" /\ child.name = name)
    IN  IF Len(matches) > 1 THEN [err |-> "MultipleElements", child |-> None]
        ELSE IF matches = << >> THEN [err |-> "", child |-> None]
        ELSE [err |-> "", child |-> Some(matches[1])]

(***************************************************************************)
(* template/path.rs, resolver.rs, module.rs, loader.rs.  A path is the     *)
(* sequence of its components; the src literal of a <require> is held as   *)
(* the components PathBuf::from splits it into.  A file is the node list   *)
(* parse_template returns for it; the span of the i-th top-level node of   *)
(* source s and of the names inside it is made of s and i.                 *)
(***************************************************************************)
\* path_clean: "." is dropped and ".." takes back the component before it
RECURSIVE clean(_, _)
clean(components, out) ==
    IF Len(components) = 0 THEN out
    ELSE clean(Tail(components),
               IF Head(components) = "." THEN out
               ELSE IF Head(components) = ".." /\ Len(out) > 0 /\ out[Len(out)] # ".."
                    THEN SubSeq(out, 1, Len(out) - 1)
                    ELSE Append(out, Head(components)))

normalize_path(original) == clean(original, << >>)

\* base_path.parent().join(raw), for a relative raw
resolve_required_path(base_path, raw_src) ==
    SubSeq(base_path, 1, Len(base_path) - 1) \o raw_src

\* Path::display
RECURSIVE display(_)
display(path) ==
    IF Len(path) = 0 THEN ""
    ELSE IF Len(path) = 1 THEN path[1]
    ELSE path[1] \o "/" \o display(Tail(path))

Span(context, start, end) == [start |-> start, end |-> end, context |-> context]

Error(message, main_span, labels) ==
    [message |-> message, main_span |-> main_span, labels |-> labels]

Label(span, text) == [span |-> span, text |-> text]

RECURSIVE collect_component_refs(_, _, _)
collect_component_refs(nodes, span, refs) ==
    IF Len(nodes) = 0 THEN refs
    ELSE collect_component_refs(
             Tail(nodes), span,
             IF Head(nodes).k = "ComponentCall"
             THEN collect_component_refs(
                      Head(nodes).children, span,
                      Append(refs, [name |-> Head(nodes).name,
                                    span |-> [span EXCEPT !.start = @ + 3 + Len(refs),
                                                          !.end = @ + 3 + Len(refs)]]))
             ELSE IF Head(nodes).k = "Element"
                  THEN collect_component_refs(Head(nodes).children, span, refs)
                  ELSE refs)

\* parse_require: Ok(RequiredTemplate) or the Error
parse_require(node, span) ==
    IF Len(node.children) # 0
    THEN [err |-> <<Error("<require> must not have children.", span, << >>)>>]
    ELSE IF \E i \in DOMAIN node.attrs : node.attrs[i].name # "src"
    THEN [err |-> <<Error("Unexpected attribute on <require>.", span, << >>)>>]
    ELSE IF find_literal_attr(node.attrs, "src").err # ""
    THEN [err |-> <<Error(find_literal_attr(node.attrs, "src").err, span, << >>)>>]
    ELSE [err |-> << >>,
          v |-> [span |-> span, raw_src |-> find_literal_attr(node.attrs, "src").s]]

\* the names of the model that begin with an ASCII uppercase letter
Uppercase == {"A", "B", "C", "D", "E"}

\* parse_view: Ok(ViewStub) or the Error
parse_view(node, span) ==
    Let(find_literal_attr(node.attrs, "name"), LAMBDA name :
        IF name.err # "" THEN [err |-> <<Error(name.err, span, << >>)>>]
        ELSE IF name.s \notin Uppercase
        THEN [err |-> <<Error("View names must start with an uppercase letter.",
                              span, << >>)>>]
        ELSE IF validate_single_child(node.children) # ""
        THEN [err |-> <<Error(validate_single_child(node.children), span, << >>)>>]
        ELSE IF node.children[1].k = "Expr"
        THEN [err |-> <<Error("Expressions cannot be the root of a view.", span, << >>)>>]
        ELSE [err |-> << >>,
              v |-> [name |-> name.s,
                     name_span |-> [span EXCEPT !.start = @ + 1, !.end = @ + 2],
                     view_span |-> span,
                     root |-> node.children[1],
                     component_refs |->
                         collect_component_refs(<<node.children[1]>>, span, << >>)]])

\* TemplateModule::from_nodes, from node i on; m is the module so far
RECURSIVE from_nodes(_, _, _, _)
from_nodes(source_id, nodes, i, m) ==
    IF i > Len(nodes) THEN [err |-> << >>, v |-> m]
    ELSE IF nodes[i].k = "Element" /\ nodes[i].name = "require"
    THEN Let(parse_require(nodes[i], Span(source_id, 10 * i, 10 * i + 9)), LAMBDA r :
             IF r.err # << >> THEN r
             ELSE from_nodes(source_id, nodes, i + 1,
                             [m EXCEPT !.requires = Append(@, r.v)]))
    ELSE IF nodes[i].k = "Element" /\ nodes[i].name = "view"
    THEN Let(parse_view(nodes[i], Span(source_id, 10 * i, 10 * i + 9)), LAMBDA r :
             IF r.err # << >> THEN r
             ELSE from_nodes(source_id, nodes, i + 1,
                             [m EXCEPT !.views = Append(@, r.v)]))
    ELSE [err |-> <<Error("Only <require> and <view> elements are allowed at the top level.",
                          Span(source_id, 10 * i, 10 * i + 9), << >>)>>]

\* SourceMap::ensure_entry: the id the path has, or the next one
ensure_entry(sources, path) ==
    IF path \in DOMAIN sources.path_to_id
    THEN [sources |-> sources, source_id |-> sources.path_to_id[path]]
    ELSE [sources |-> [path_to_id |-> (path :> sources.next_source_id) @@ sources.path_to_id,
                       next_source_id |-> sources.next_source_id + 1],
          source_id |-> sources.next_source_id]

NewState ==
    [modules |-> EmptyMap, requires_graph |-> EmptyMap, visiting |-> {}, stack |-> << >>,
     sources |-> [path_to_id |-> EmptyMap, next_source_id |-> 0], errors |-> << >>]

\* trigger_span.unwrap_or(Span { start: 0, end: 0, context: 0 })
span_or_fallback(span) == IF span.some THEN span.v ELSE fallback_span

RECURSIVE loader_visit(_, _, _, _)
RECURSIVE visit_requires(_, _, _, _, _)

\* fn visit of loader.rs
loader_visit(path, trigger_span, resolver, state) ==
    IF state.errors # << >> THEN state
    ELSE IF path \in DOMAIN state.modules THEN state
    ELSE IF path \in state.visiting
    THEN [state EXCEPT !.errors =
             <<Error("Circular <require> dependency detected: "
                         \o arrow_join([i \in DOMAIN cycle_from_stack(state.stack, path) |->
                                           display(cycle_from_stack(state.stack, path)[i])]),
                     span_or_fallback(trigger_span),
                     <<Label(span_or_fallback(trigger_span), "Cycle introduced here.")>>)>>]
    ELSE IF path \notin DOMAIN resolver
    THEN [state EXCEPT !.errors = <<Error("Failed to load '" \o display(path) \o "'",
                                          span_or_fallback(trigger_span),
                                          <<Label(span_or_fallback(trigger_span),
                                                  "Unable to read required template.")>>)>>]
    ELSE
    Let(ensure_entry(state.sources, path), LAMBDA e :
    Let(from_nodes(e.source_id, resolver[path], 1,
                   [path |-> path, requires |-> << >>, views |-> << >>]), LAMBDA module :
        IF module.err # << >> THEN [state EXCEPT !.errors = module.err]
        ELSE
        Let(visit_requires(module.v, 1, << >>, resolver,
                           [state EXCEPT !.visiting = @ \cup {path},
                                         !.stack = Append(@, path),
                                         !.sources = e.sources]), LAMBDA r :
            IF r.state.errors # << >> THEN r.state
            ELSE [r.state EXCEPT
                     !.requires_graph = (path :> r.resolved_children) @@ @,
                     !.visiting = @ \ {path},
                     !.stack = SubSeq(@, 1, Len(@) - 1),
                     !.modules = (path :> module.v) @@ @])))

\* for require in &module.requires: seen_child_paths is the range of
\* resolved_children, as a path is pushed whenever it is new and its visit is Ok
visit_requires(module, i, resolved_children, resolver, state) ==
    IF i > Len(module.requires) \/ state.errors # << >>
    THEN [state |-> state, resolved_children |-> resolved_children]
    ELSE Let(normalize_path(resolve_required_path(module.path, module.requires[i].raw_src)),
             LAMBDA resolved :
               IF \E j \in DOMAIN resolved_children : resolved_children[j] = resolved
               THEN visit_requires(module, i + 1, resolved_children, resolver, state)
               ELSE visit_requires(module, i + 1, Append(resolved_children, resolved),
                                   resolver,
                                   loader_visit(resolved, Some(module.requires[i].span),
                                                resolver, state)))

RECURSIVE Flatten(_)
Flatten(seqs) == IF Len(seqs) = 0 THEN << >> ELSE Head(seqs) \o Flatten(Tail(seqs))

RECURSIVE build_view_lookup(_, _, _, _)

\* a second definition of a name takes the place of the first
build_view_lookup_last_wins(modules_vec, places, i, view_lookup) ==
    IF i > Len(places) THEN [err |-> << >>, v |-> view_lookup]
    ELSE build_view_lookup(modules_vec, places, i + 1,
                           (modules_vec[places[i][1]].views[places[i][2]].name :> places[i])
                           @@ view_lookup)

\* the loop of load_ordered_views over the views of modules_vec, from the
\* i-th on: Ok(view_lookup) or the duplicate's Error
build_view_lookup(modules_vec, places, i, view_lookup) ==
    IF i > Len(places) THEN [err |-> << >>, v |-> view_lookup]
    ELSE Let(modules_vec[places[i][1]].views[places[i][2]], LAMBDA view :
         IF view.name \in DOMAIN view_lookup
         THEN Let(view_lookup[view.name], LAMBDA previous :
              [err |-> <<Error("View '" \o view.name \o "' is defined more than once (in '"
                                   \o display(modules_vec[previous[1]].path) \o "' and '"
                                   \o display(modules_vec[places[i][1]].path) \o "').",
                               view.name_span,
                               <<Label(view.name_span, "Second definition occurs here."),
                                 Label(modules_vec[previous[1]].views[previous[2]].name_span,
                                       "First definition was here.")>>)>>])
         ELSE build_view_lookup(modules_vec, places, i + 1,
                                (view.name :> places[i]) @@ view_lookup))

\* a component is accepted when any loaded module defines it
check_component_anywhere(modules_vec, view_lookup, requires_graph, module, component) ==
    IF component.name \notin DOMAIN view_lookup
    THEN <<Error("Component '" \o component.name
                     \o "' is not defined in this compilation set.",
                 component.span, << >>)>>
    ELSE << >>

\* the check of one component reference: << >> or its Error
check_component(modules_vec, view_lookup, requires_graph, module, component) ==
    IF component.name \notin DOMAIN view_lookup
    THEN <<Error("Component '" \o component.name
                     \o "' is not defined in this compilation set.",
                 component.span,
                 <<Label(component.span,
                         "Add a matching <view> definition or correct the name.")>>)>>
    ELSE Let(modules_vec[view_lookup[component.name][1]].path, LAMBDA target_path :
         IF \/ module.path = target_path
            \/ /\ module.path \in DOMAIN requires_graph
               /\ \E j \in DOMAIN requires_graph[module.path] :
                     requires_graph[module.path][j] = target_path
         THEN << >>
         ELSE <<Error("Component '" \o component.name \o "' is defined in '"
                          \o display(target_path)
                          \o "', but this template does not <require> it directly.",
                      component.span,
                      <<Label(component.span,
                              "Add or fix a <require src=...> directive.")>>)>>)

\* load_ordered_views; order is the order in which the HashMap of the
\* modules happens to be iterated
load_ordered_views(entry_path, resolver, order) ==
    Let(loader_visit(normalize_path(entry_path), None, resolver, NewState), LAMBDA state :
    IF state.errors # << >> THEN [ok |-> FALSE, errors |-> state.errors, state |-> state]
    ELSE
    Let(SelectSeq(order, LAMBDA p : p \in DOMAIN state.modules), LAMBDA paths :
    Let([i \in DOMAIN paths |-> state.modules[paths[i]]], LAMBDA modules_vec :
    Let(build_view_lookup(modules_vec,
                          Flatten([m \in DOMAIN modules_vec |->
                                      [v \in DOMAIN modules_vec[m].views |-> <<m, v>>]]),
                          1, EmptyMap), LAMBDA view_lookup :
    IF view_lookup.err # << >>
    THEN [ok |-> FALSE, errors |-> view_lookup.err, state |-> state]
    ELSE
    Let(Flatten(Flatten([m \in DOMAIN modules_vec |->
                    [v \in DOMAIN modules_vec[m].views |->
                        [c \in DOMAIN modules_vec[m].views[v].component_refs |->
                            check_component(modules_vec, view_lookup.v, state.requires_graph,
                                            modules_vec[m],
                                            modules_vec[m].views[v].component_refs[c])]]])),
        LAMBDA checks :
    IF Flatten(checks) # << >>
    THEN [ok |-> FALSE, errors |-> <<Flatten(checks)[1]>>, state |-> state]
    ELSE
    Let(topologically_sort_views(
            [name \in DOMAIN view_lookup.v |->
                Let(modules_vec[view_lookup.v[name][1]].views[view_lookup.v[name][2]],
                    LAMBDA view : {view.component_refs[c].name
                                   : c \in DOMAIN view.component_refs})],
            [name \in DOMAIN view_lookup.v |->
                modules_vec[view_lookup.v[name][1]].views[view_lookup.v[name][2]].name_span]),
        LAMBDA sort :
    IF ~sort.ok THEN [ok |-> FALSE, errors |-> sort.errors, state |-> state]
    ELSE [ok |-> TRUE,
          ordered_views |->
              [i \in DOMAIN sort.order |->
                  modules_vec[view_lookup.v[sort.order[i]][1]]
                      .views[view_lookup.v[sort.order[i]][2]]],
          state |-> state]))))))

(***************************************************************************)
(* ir.rs.  Indices count from 0, as in the code.  The dependency lists of  *)
(* mounts are not part of the model.                                       *)
(***************************************************************************)
NewCompileContext ==
    [constructors |-> << >>, updaters |-> << >>, child_views |-> << >>,
     for_loops |-> << >>, ifs |-> << >>, switches |-> << >>,
     component_calls |-> << >>, mounts |-> << >>]

JsElement(tag, props, dataset, children) ==
    [k |-> "Element", tag |-> tag, props |-> props, dataset |-> dataset,
     children |-> children]
JsText(content) == [k |-> "Text", content |-> content]
JsExprOf(expr) == [k |-> "Expr", expr |-> expr]
Ref(idx) == [k |-> "Ref", idx |-> idx]
LoopElements(idx) == [k |-> "LoopElements", idx |-> idx]
ConditionalElement(idx) == [k |-> "ConditionalElement", idx |-> idx]
SwitchElement(idx) == [k |-> "SwitchElement", idx |-> idx]
Mount(idx) == [k |-> "Mount", idx |-> idx]
JsComponentCall(idx) == [k |-> "ComponentCall", idx |-> idx]

(***************************************************************************)
(* compile.rs: TypeEnv                                                     *)
(***************************************************************************)
NewTypeEnv ==
    [env |-> NewEnv, infer_ctx |-> NewContext, constraints |-> << >>,
     views |-> EmptyMap]

\* a slip: the saved types are handed out as they are, points and all
instantiate_attrs_shared(h, attrs) == [h |-> h, attrs |-> attrs, div |-> FALSE]

\* InferContext::instantiate_attrs: one instantiation over every type of the
\* saved globals map, so that a point the entries share is replaced once
instantiate_attrs(h, attrs) ==
    Let(instantiate_fields(NewSeen(h), attrs, SortedKeys(DOMAIN attrs), MaxDepth),
        LAMBDA r : [h |-> r.s.h, attrs |-> r.fields, div |-> r.div])

RECURSIVE solve(_, _)
solve(h, cs) ==
    IF cs = << >> THEN Ok(h)
    ELSE Let(unify(h, Head(cs).t1, Head(cs).t2, MaxDepth), LAMBDA u :
             IF u.err # "" THEN u ELSE solve(u.h, Tail(cs)))

(***************************************************************************)
(* ts_type.rs                                                              *)
(***************************************************************************)
SimpleType(s) == [k |-> "SimpleType", s |-> s]
Object(fields) == [k |-> "Object", fields |-> fields]
TsArray(elem) == [k |-> "Array", elem |-> elem]
Function(params, res) == [k |-> "Function", params |-> params, ret |-> res]
Union(types) == [k |-> "Union", types |-> types]

RECURSIVE type_to_ts_type(_, _, _)
RECURSIVE types_to_ts_types(_, _, _)
RECURSIVE canonical_ts_fields(_, _, _, _)
RECURSIVE variants(_, _, _, _)
RECURSIVE row_to_fields(_, _, _)

type_to_ts_type(h, ty, n) ==
    IF n = 0 THEN [h |-> h, ts |-> SimpleType("any"), div |-> TRUE]
    ELSE CASE ty.k = "Prim" -> [h |-> h, ts |-> SimpleType(ty.name), div |-> FALSE]
           [] ty.k = "Fun" ->
                Let(types_to_ts_types(h, ty.args, n - 1), LAMBDA p :
                    IF p.div THEN [h |-> p.h, ts |-> SimpleType("any"), div |-> TRUE]
                    ELSE Let(type_to_ts_type(p.h, ty.ret, n - 1), LAMBDA r :
                         [h |-> r.h, ts |-> Function(p.tss, r.ts), div |-> r.div]))
           [] ty.k = "Array" ->
                Let(type_to_ts_type(h, ty.elem, n - 1), LAMBDA e :
                    [h |-> e.h, ts |-> TsArray(e.ts), div |-> e.div])
           [] ty.k = "Var" -> [h |-> h, ts |-> SimpleType("any"), div |-> FALSE]
           [] ty.k = "Record" ->
                Let(row_to_fields(h, ty.row, n - 1), LAMBDA f :
                    [h |-> f.h, ts |-> Object(f.fields), div |-> f.div])
           [] ty.k = "DiscriminatedUnion" ->
                Let(variants(h, ty.map, SortedKeys(DOMAIN ty.map), n - 1), LAMBDA v :
                    [h |-> v.h, ts |-> Union(v.tss), div |-> v.div])

\* params.iter().map(type_to_ts_type)
types_to_ts_types(h, tys, n) ==
    IF tys = << >> THEN [h |-> h, tss |-> << >>, div |-> FALSE]
    ELSE Let(type_to_ts_type(h, Head(tys), n), LAMBDA x :
             IF x.div THEN [h |-> x.h, tss |-> << >>, div |-> TRUE]
             ELSE Let(types_to_ts_types(x.h, Tail(tys), n), LAMBDA rest :
                  [h |-> rest.h, tss |-> <<x.ts>> \o rest.tss, div |-> rest.div]))

\* for (name, ty) in ..: fields.insert(name, type_to_ts_type(&canonical_type(ty)))
canonical_ts_fields(h, fields, keys, n) ==
    IF keys = << >> THEN [h |-> h, fields |-> EmptyMap, div |-> FALSE]
    ELSE Let(canonical_type(h, fields[Head(keys)], n), LAMBDA canonical :
         IF canonical.div THEN [h |-> canonical.h, fields |-> EmptyMap, div |-> TRUE]
         ELSE Let(type_to_ts_type(canonical.h, canonical.ty, n), LAMBDA x :
              IF x.div THEN [h |-> x.h, fields |-> EmptyMap, div |-> TRUE]
              ELSE Let(canonical_ts_fields(x.h, fields, Tail(keys), n), LAMBDA rest :
                   [h |-> rest.h, fields |-> (Head(keys) :> x.ts) @@ rest.fields,
                    div |-> rest.div])))

\* for (k, row) in map: the fields of the row, then "type" inserted over them
variants(h, map, keys, n) ==
    IF keys = << >> THEN [h |-> h, tss |-> << >>, div |-> FALSE]
    ELSE Let(row_to_fields(h, map[Head(keys)], n), LAMBDA f :
         IF f.div THEN [h |-> f.h, tss |-> << >>, div |-> TRUE]
         ELSE Let(variants(f.h, map, Tail(keys), n), LAMBDA rest :
              [h |-> rest.h,
               tss |-> <<Object(("type" :> SimpleType("\"" \o Head(keys) \o "\""))
                                @@ f.fields)>> \o rest.tss,
               div |-> rest.div]))

\* fields.extend(rest_fields): a name of the rest replaces the same name here
row_to_fields(h, row, n) ==
    IF n = 0 THEN [h |-> h, fields |-> EmptyMap, div |-> TRUE]
    ELSE Let(get_row(h, row), LAMBDA g :
         IF g.desc.k = "RowFlex" THEN [h |-> g.h, fields |-> EmptyMap, div |-> FALSE]
         ELSE Let(canonical_ts_fields(g.h, g.desc.fields,
                                      SortedKeys(DOMAIN g.desc.fields), n - 1),
                  LAMBDA f :
              IF f.div THEN [h |-> f.h, fields |-> EmptyMap, div |-> TRUE]
              ELSE Let(row_to_fields(f.h, g.desc.tail, n - 1), LAMBDA rest :
                   [h |-> rest.h, fields |-> rest.fields @@ f.fields,
                    div |-> rest.div])))

env_to_ts_type(h, env) ==
    Let(canonical_ts_fields(h, globals(env), SortedKeys(DOMAIN globals(env)), MaxDepth),
        LAMBDA f : [h |-> f.h, ts |-> Object(f.fields), div |-> f.div])

(***************************************************************************)
(* compile.rs: the lowering of nodes.  c holds what the functions take by  *)
(* &mut: env (the TypeEnv) and context (the CompileContext), and a history *)
(* trace of the component calls and switch cases met, which no code reads. *)
(* A result is [c, expr, err]: err is "" for Ok(expr).                     *)
(***************************************************************************)
Done(c, expr) == [c |-> c, expr |-> expr, err |-> ""]
Fail(c, err) == [c |-> c, expr |-> JsText(""), err |-> err]

NewTrace == [calls |-> << >>, cases |-> << >>]

\* attrs.iter().map(|attr| (attr.name, attr_expr)).collect(): a later
\* attribute of the same name replaces an earlier one
RECURSIVE provided_attrs(_)
provided_attrs(attrs) ==
    IF attrs = << >> THEN EmptyMap
    ELSE provided_attrs(Tail(attrs))
         @@ (Head(attrs).name :>
                IF Head(attrs).value.k = "Template"
                THEN StringTemplate(Head(attrs).value.segments)
                ELSE Head(attrs).value.expr)

RECURSIVE infer_provided(_, _, _, _)
RECURSIVE infer_provided_unexpected(_, _, _, _)

\* a slip: the expressions are inferred with nothing expected of them
infer_provided_unexpected(t, provided, instantiated_view_attrs, keys) ==
    IF keys = << >> THEN t
    ELSE Let(infer(t, provided[Head(keys)], NoExpect), LAMBDA r :
             infer_provided_unexpected(r.t, provided, instantiated_view_attrs,
                                       Tail(keys)))

\* for (attr_name, attr_expr) in &provided_attrs, taken in the order of the names
infer_provided(t, provided, instantiated_view_attrs, keys) ==
    IF keys = << >> THEN t
    ELSE Let(infer(t, provided[Head(keys)],
                   Expect(instantiated_view_attrs[Head(keys)])), LAMBDA r :
             infer_provided(r.t, provided, instantiated_view_attrs, Tail(keys)))

\* history: what a component call met and left behind
CallTrace(c, name, provided, out, h0, h1, err) ==
    [target |-> name,
     provided |-> provided,
     required |-> IF name \in DOMAIN c.env.views THEN DOMAIN c.env.views[name] ELSE {},
     found |-> name \in DOMAIN c.env.views,
     scoped |-> UNION {DOMAIN c.env.env.scopes[i] : i \in DOMAIN c.env.env.scopes},
     constraints0 |-> Len(c.env.constraints), constraints1 |-> Len(out.env.constraints),
     calls0 |-> Len(c.context.component_calls),
     calls1 |-> Len(out.context.component_calls),
     tp0 |-> Len(h0.tp), rp0 |-> Len(h0.rp), tp1 |-> Len(h1.tp), rp1 |-> Len(h1.rp),
     err |-> err]

Traced(c, name, provided, out, h0, h1, err) ==
    [out EXCEPT !.trace.calls =
        Append(@, CallTrace(c, name, provided, out, h0, h1, err))]

\* a slip: the attributes are typed before the names are compared
compile_component_call_check_late(c, name, attrs, children) ==
    IF name \notin DOMAIN c.env.views
    THEN Fail(Traced(c, name, provided_attrs(attrs), c, c.env.infer_ctx,
                     c.env.infer_ctx, "ComponentNotFound"), "ComponentNotFound")
    ELSE Let(c.env.views[name], LAMBDA view_attrs :
         Let(provided_attrs(attrs), LAMBDA provided :
         Let(instantiate_attrs(c.env.infer_ctx, view_attrs), LAMBDA instantiated :
         Let(infer_provided([c.env EXCEPT !.infer_ctx = instantiated.h], provided,
                            instantiated.attrs,
                            SortedKeys(DOMAIN provided \cap DOMAIN view_attrs)),
             LAMBDA t :
         Let([c EXCEPT !.env = t], LAMBDA out :
             IF DOMAIN view_attrs \ DOMAIN provided # {}
             THEN Fail(Traced(c, name, provided, out, c.env.infer_ctx, instantiated.h,
                              "MissingRequiredAttributes"),
                       "MissingRequiredAttributes")
             ELSE IF DOMAIN provided \ DOMAIN view_attrs # {}
             THEN Fail(Traced(c, name, provided, out, c.env.infer_ctx, instantiated.h,
                              "UnexpectedAttributes"), "UnexpectedAttributes")
             ELSE Let([out EXCEPT !.context.component_calls =
                          Append(@, [target_view_name |-> name,
                                     input_attrs |-> provided])], LAMBDA pushed :
                  Done(Traced(c, name, provided, pushed, c.env.infer_ctx, instantiated.h, ""),
                       JsComponentCall(Len(c.context.component_calls)))))))))

compile_component_call(c, name, attrs, children) ==
    IF name \notin DOMAIN c.env.views
    THEN Fail(Traced(c, name, provided_attrs(attrs), c, c.env.infer_ctx,
                     c.env.infer_ctx, "ComponentNotFound"), "ComponentNotFound")
    ELSE Let(c.env.views[name], LAMBDA view_attrs :
         Let(provided_attrs(attrs), LAMBDA provided :
             IF DOMAIN view_attrs \ DOMAIN provided # {}
             THEN Fail(Traced(c, name, provided, c, c.env.infer_ctx, c.env.infer_ctx,
                              "MissingRequiredAttributes"),
                       "MissingRequiredAttributes")
             ELSE IF DOMAIN provided \ DOMAIN view_attrs # {}
             THEN Fail(Traced(c, name, provided, c, c.env.infer_ctx, c.env.infer_ctx,
                              "UnexpectedAttributes"), "UnexpectedAttributes")
             ELSE Let(instantiate_attrs(c.env.infer_ctx, view_attrs), LAMBDA instantiated :
                  IF instantiated.div
                  THEN Fail(Traced(c, name, provided, c, c.env.infer_ctx, instantiated.h,
                                   "Diverge"), "Diverge")
                  ELSE Let(infer_provided([c.env EXCEPT !.infer_ctx = instantiated.h],
                                          provided, instantiated.attrs,
                                          SortedKeys(DOMAIN provided)), LAMBDA t :
                       Let([c EXCEPT !.env = t,
                                     !.context.component_calls =
                                        Append(@, [target_view_name |-> name,
                                                   input_attrs |-> provided])],
                           LAMBDA out :
                           Done(Traced(c, name, provided, out, c.env.infer_ctx,
                                       instantiated.h, ""),
                                JsComponentCall(Len(c.context.component_calls))))))))

RECURSIVE compile_view(_, _)
RECURSIVE compile_node(_, _)
RECURSIVE compile_children(_, _)
RECURSIVE compile_element(_, _, _, _)
RECURSIVE compile_for_loop(_, _, _)
RECURSIVE compile_branch(_, _)
RECURSIVE compile_if(_, _, _)
RECURSIVE compile_cases(_, _)
RECURSIVE compile_switch(_, _, _)
RECURSIVE compile_switch_unexpected(_, _, _)

\* a slip compile_view could make: the root is not looked at
compile_view_any_root(c, node) == compile_node(c, node)

compile_view(c, node) ==
    Let(compile_node(c, node), LAMBDA r :
        IF r.err # "" THEN r
        ELSE IF r.expr.k = "LoopElements" THEN Fail(r.c, "ForRoot")
        ELSE r)

\* compile_view(child, &mut sub_context, env, ..) and
\* context.child_views.push(CompiledView { root, context: sub_context }):
\* the result carries the outer context again, idx is the child view's index
sub_view(c, node) ==
    Let(compile_view([c EXCEPT !.context = NewCompileContext], node), LAMBDA r :
        [c |-> [r.c EXCEPT !.context =
                   IF r.err # "" THEN c.context
                   ELSE [c.context EXCEPT !.child_views =
                            Append(@, [root |-> r.expr, context |-> r.c.context])]],
         idx |-> Len(c.context.child_views), err |-> r.err])

\* for attr in attrs: the types of the bindings
RECURSIVE infer_attrs(_, _, _)
infer_attrs(t, name, attrs) ==
    IF attrs = << >> THEN t
    ELSE Let(Head(attrs), LAMBDA attr :
         IF attr.value.k = "Template"
         THEN infer_attrs(infer_segments(t, attr.value.segments), name, Tail(attrs))
         ELSE Let(infer(t, attr.value.expr,
                        Expect(Prim(IF split_data_attribute(attr.name).some
                                    THEN "string"
                                    ELSE infer_attr_type(attr.name, name)))),
                  LAMBDA r : infer_attrs(r.t, name, Tail(attrs))))

\* for attr in attrs: props, dataset and prop_updaters
RECURSIVE element_parts(_, _)
element_parts(attrs, node_idx) ==
    IF attrs = << >> THEN [props |-> << >>, dataset |-> << >>, prop_updaters |-> << >>]
    ELSE Let(element_parts(Tail(attrs), node_idx), LAMBDA rest :
         Let(Head(attrs), LAMBDA attr :
         Let(IF attr.name = "class" THEN "className" ELSE attr.name,
             LAMBDA dom_prop_name :
         Let(split_data_attribute(attr.name), LAMBDA data :
             [props |-> IF data.some THEN rest.props
                        ELSE <<<<dom_prop_name, attr.value>>>> \o rest.props,
              dataset |-> IF data.some
                          THEN <<<<data.v, attr.value>>>> \o rest.dataset
                          ELSE rest.dataset,
              prop_updaters |->
                 IF ~has_bindings(attr.value) THEN rest.prop_updaters
                 ELSE IF data.some
                 THEN <<[dependencies |-> collect_attr_dependencies(attr.value),
                         kind |-> "Dataset", node_idx |-> node_idx,
                         key |-> data.v, value |-> attr.value]>>
                      \o rest.prop_updaters
                 ELSE <<[dependencies |-> collect_attr_dependencies(attr.value),
                         kind |-> "Prop", node_idx |-> node_idx,
                         prop |-> dom_prop_name, value |-> attr.value]>>
                      \o rest.prop_updaters]))))

\* compile_node, Node::Expr: the constructor of the binding and its text updater
push_text_binding(context, expr) ==
    [context EXCEPT
        !.constructors = Append(@, JsExprOf(expr)),
        !.updaters = Append(@, [dependencies |-> into_vec(expr_dependencies(expr)),
                                kind |-> "Text",
                                node_idx |-> Len(context.constructors),
                                value |-> ExprValue(expr)])]

\* a slip compile_element could make: the element is put in front of the
\* constructors of its children
push_element_in_front(context, element_expr, prop_updaters) ==
    IF prop_updaters # << >>
    THEN [context EXCEPT !.constructors = <<element_expr>> \o @,
                         !.updaters = @ \o prop_updaters]
    ELSE context

\* compile_element: an element with updaters becomes a constructor of its own
push_element(context, element_expr, prop_updaters) ==
    IF prop_updaters # << >>
    THEN [context EXCEPT !.constructors = Append(@, element_expr),
                         !.updaters = @ \o prop_updaters]
    ELSE context

compile_node(c, node) ==
    CASE node.k = "Element" ->
            IF node.name = "for" THEN compile_for_loop(c, node.attrs, node.children)
            ELSE IF node.name = "if" THEN compile_if(c, node.attrs, node.children)
            ELSE IF node.name = "switch"
            THEN compile_switch(c, node.attrs, node.children)
            ELSE IF node.name = "mount"
            THEN \* compile_mount
                 Let(find_binding_attr(node.attrs, "use"), LAMBDA use_binding :
                     IF use_binding.err # "" THEN Fail(c, use_binding.err)
                     ELSE Let(infer(c.env, use_binding.expr,
                                    Expect(Prim("() => Element"))), LAMBDA r :
                          Done([c EXCEPT !.env = r.t,
                                         !.context.mounts =
                                            Append(@, [use_expr |-> use_binding.expr])],
                               Mount(Len(c.context.mounts)))))
            ELSE compile_element(c, node.name, node.attrs, node.children)
      [] node.k = "ComponentCall" ->
            compile_component_call(c, node.name, node.attrs, node.children)
      [] node.k = "Text" -> Done(c, JsText(node.content))
      [] node.k = "Expr" ->
            Let(infer(c.env, node.expr, Expect(Prim("string"))), LAMBDA r :
                Done([c EXCEPT !.env = r.t,
                               !.context = push_text_binding(@, node.expr)],
                     Ref(Len(c.context.constructors))))

\* for child in children { child_exprs.push(compile_node(child, ..)?) }
compile_children(c, children) ==
    IF children = << >> THEN [c |-> c, exprs |-> << >>, err |-> ""]
    ELSE Let(compile_node(c, Head(children)), LAMBDA x :
         IF x.err # "" THEN [c |-> x.c, exprs |-> << >>, err |-> x.err]
         ELSE Let(compile_children(x.c, Tail(children)), LAMBDA rest :
              [c |-> rest.c, exprs |-> <<x.expr>> \o rest.exprs, err |-> rest.err]))

\* a slip compile_element could make: node_idx is taken before the children
\* are compiled
compile_element_index_early(c, name, attrs, children) ==
    Let(compile_children(c, children), LAMBDA ch :
        IF ch.err # "" THEN Fail(ch.c, ch.err)
        ELSE Let(infer_attrs(ch.c.env, name, attrs), LAMBDA t :
             Let(element_parts(attrs, Len(c.context.constructors)), LAMBDA parts :
             Let(JsElement(name, parts.props, parts.dataset, ch.exprs),
                 LAMBDA element_expr :
                 IF parts.prop_updaters # << >>
                 THEN Done([ch.c EXCEPT
                               !.env = t,
                               !.context = push_element(@, element_expr,
                                                        parts.prop_updaters)],
                           Ref(Len(c.context.constructors)))
                 ELSE Done([ch.c EXCEPT !.env = t], element_expr)))))

compile_element(c, name, attrs, children) ==
    Let(compile_children(c, children), LAMBDA ch :
        IF ch.err # "" THEN Fail(ch.c, ch.err)
        ELSE Let(infer_attrs(ch.c.env, name, attrs), LAMBDA t :
             Let(element_parts(attrs, Len(ch.c.context.constructors)), LAMBDA parts :
             Let(JsElement(name, parts.props, parts.dataset, ch.exprs),
                 LAMBDA element_expr :
                 IF parts.prop_updaters # << >>
                 THEN Done([ch.c EXCEPT
                               !.env = t,
                               !.context = push_element(@, element_expr,
                                                        parts.prop_updaters)],
                           Ref(Len(ch.c.context.constructors)))
                 ELSE Done([ch.c EXCEPT !.env = t], element_expr)))))

compile_for_loop(c, attrs, children) ==
    Let(find_binding_attr(attrs, "seq"), LAMBDA seq :
    Let(find_literal_attr(attrs, "as"), LAMBDA var :
        IF seq.err # "" THEN Fail(c, seq.err)
        ELSE IF var.err # "" THEN Fail(c, var.err)
        ELSE IF validate_single_child(children) # ""
        THEN Fail(c, validate_single_child(children))
        ELSE Let(fresh_point(c.env.infer_ctx), LAMBDA array_type :
             Let(sub_view([c EXCEPT !.env.infer_ctx = array_type.h,
                                    !.env.env = push_scope(@, var.s :> Var(array_type.p))],
                          children[1]), LAMBDA child :
                 IF child.err # "" THEN Fail(child.c, child.err)
                 ELSE Let(infer([child.c.env EXCEPT !.env = pop_scope(@)], seq.expr,
                                Expect(Array(Var(array_type.p)))), LAMBDA r :
                      Done([child.c EXCEPT
                               !.env = r.t,
                               !.context.for_loops =
                                  Append(@, [child_view_idx |-> child.idx,
                                             sequence_expr |-> seq.expr,
                                             var_name |-> var.s])],
                           LoopElements(Len(c.context.for_loops))))))))

\* then_child / else_child of compile_if: the branch, if present, is a sub-view
compile_branch(c, child) ==
    IF ~child.some THEN [c |-> c, idx |-> None, err |-> ""]
    ELSE IF validate_single_child(child.v.children) # ""
    THEN [c |-> c, idx |-> None, err |-> validate_single_child(child.v.children)]
    ELSE Let(sub_view(c, child.v.children[1]), LAMBDA r :
             [c |-> r.c, idx |-> Some(r.idx), err |-> r.err])

compile_if(c, attrs, children) ==
    Let(find_binding_attr(attrs, "condition"), LAMBDA condition :
    Let(find_unique_child_by_name(children, "then"), LAMBDA then_child :
    Let(find_unique_child_by_name(children, "else"), LAMBDA else_child :
        IF condition.err # "" THEN Fail(c, condition.err)
        ELSE IF validate_all_children_are_elements(children) # ""
        THEN Fail(c, validate_all_children_are_elements(children))
        ELSE IF validate_child_element_names(children, {"then", "else"}) # ""
        THEN Fail(c, validate_child_element_names(children, {"then", "else"}))
        ELSE IF then_child.err # "" THEN Fail(c, then_child.err)
        ELSE IF else_child.err # "" THEN Fail(c, else_child.err)
        ELSE IF ~then_child.child.some /\ ~else_child.child.some
        THEN Fail(c, "MissingThenElse")
        ELSE Let(compile_branch(c, then_child.child), LAMBDA th :
             IF th.err # "" THEN Fail(th.c, th.err)
             ELSE Let(compile_branch(th.c, else_child.child), LAMBDA el :
                  IF el.err # "" THEN Fail(el.c, el.err)
                  ELSE Let(infer(el.c.env, condition.expr, Expect(Prim("boolean"))),
                           LAMBDA r :
                       Done([el.c EXCEPT
                                !.env = r.t,
                                !.context.ifs =
                                   Append(@, [then_view_idx |-> th.idx,
                                              else_view_idx |-> el.idx,
                                              condition_expr |-> condition.expr])],
                            ConditionalElement(Len(c.context.ifs)))))))))

\* for case_node in children; a holds c and case_view_idxs, case_names and
\* union_map (seen is the key set of union_map)
compile_cases(a, children) ==
    IF children = << >> THEN a
    ELSE Let(Head(children), LAMBDA case_node :
         Let(find_literal_attr(case_node.attrs, "name"), LAMBDA name :
             IF validate_single_child(case_node.children) # ""
             THEN [a EXCEPT !.err = validate_single_child(case_node.children)]
             ELSE IF name.err # "" THEN [a EXCEPT !.err = name.err]
             ELSE IF name.s \in DOMAIN a.union_map
             THEN [a EXCEPT !.err = "DuplicateCase"]
             ELSE Let(fresh_row_point(a.c.env.infer_ctx), LAMBDA tail :
                  Let(fresh_row_extend(tail.h,
                                       "type" :> Prim("\"" \o name.s \o "\""),
                                       tail.p), LAMBDA row :
                  Let(fresh_point(row.h), LAMBDA point :
                  Let(sub_view([a.c EXCEPT
                                   !.env.infer_ctx = point.h,
                                   !.env.env = push_scope(@, name.s :> Var(point.p)),
                                   !.env.constraints =
                                      Append(@, Equal(0, Var(point.p), Record(row.p))),
                                   !.trace.cases =
                                      Append(@, [name |-> name.s, point |-> point.p,
                                                 row |-> row.p, tail |-> tail.p])],
                               case_node.children[1]), LAMBDA child :
                      IF child.err # "" THEN [a EXCEPT !.c = child.c, !.err = child.err]
                      ELSE compile_cases(
                              [c |-> [child.c EXCEPT !.env.env = pop_scope(@)],
                               case_view_idxs |-> Append(a.case_view_idxs, child.idx),
                               case_names |-> Append(a.case_names, name.s),
                               union_map |-> (name.s :> tail.p) @@ a.union_map,
                               err |-> ""],
                              Tail(children))))))))

\* a slip: nothing is expected of the `on` expression
compile_switch_unexpected(c, attrs, children) ==
    Let(find_binding_attr(attrs, "on"), LAMBDA on_binding :
        IF on_binding.err # "" THEN Fail(c, on_binding.err)
        ELSE IF validate_all_children_are_elements(children) # ""
        THEN Fail(c, validate_all_children_are_elements(children))
        ELSE IF validate_child_element_names(children, {"case"}) # ""
        THEN Fail(c, validate_child_element_names(children, {"case"}))
        ELSE IF children = << >> THEN Fail(c, "MissingCase")
        ELSE Let(compile_cases([c |-> c, case_view_idxs |-> << >>,
                                case_names |-> << >>, union_map |-> EmptyMap,
                                err |-> ""], children), LAMBDA cases :
             IF cases.err # "" THEN Fail(cases.c, cases.err)
             ELSE Let(infer(cases.c.env, on_binding.expr, NoExpect), LAMBDA r :
                  Done([cases.c EXCEPT
                           !.env = r.t,
                           !.context.switches =
                              Append(@, [case_view_idxs |-> cases.case_view_idxs,
                                         case_names |-> cases.case_names,
                                         on_expr |-> on_binding.expr])],
                       SwitchElement(Len(c.context.switches))))))

compile_switch(c, attrs, children) ==
    Let(find_binding_attr(attrs, "on"), LAMBDA on_binding :
        IF on_binding.err # "" THEN Fail(c, on_binding.err)
        ELSE IF validate_all_children_are_elements(children) # ""
        THEN Fail(c, validate_all_children_are_elements(children))
        ELSE IF validate_child_element_names(children, {"case"}) # ""
        THEN Fail(c, validate_child_element_names(children, {"case"}))
        ELSE IF children = << >> THEN Fail(c, "MissingCase")
        ELSE Let(compile_cases([c |-> c, case_view_idxs |-> << >>,
                                case_names |-> << >>, union_map |-> EmptyMap,
                                err |-> ""], children), LAMBDA cases :
             IF cases.err # "" THEN Fail(cases.c, cases.err)
             ELSE Let(infer(cases.c.env, on_binding.expr,
                            Expect(DiscriminatedUnion(cases.union_map))), LAMBDA r :
                  Done([cases.c EXCEPT
                           !.env = r.t,
                           !.context.switches =
                              Append(@, [case_view_idxs |-> cases.case_view_idxs,
                                         case_names |-> cases.case_names,
                                         on_expr |-> on_binding.expr])],
                       SwitchElement(Len(c.context.switches))))))

\* TypeEnv::solve_view.  Where the code would recurse without end the
\* result is the error "Diverge".
solve_view(t, view_name) ==
    Let(solve(t.infer_ctx, t.constraints), LAMBDA s :
        IF s.err # ""
        THEN [t |-> [t EXCEPT !.infer_ctx = s.h], ts_type |-> Object(EmptyMap),
              err |-> s.err]
        ELSE Let(env_to_ts_type(s.h, t.env), LAMBDA ts_type :
             IF ts_type.div
             THEN [t |-> [t EXCEPT !.infer_ctx = ts_type.h],
                   ts_type |-> Object(EmptyMap), err |-> "Diverge"]
             ELSE [t |-> [t EXCEPT !.infer_ctx = ts_type.h,
                                   !.views = (view_name :> globals(t.env)) @@ @,
                                   !.env = NewEnv,
                                   !.constraints = << >>],
                   ts_type |-> ts_type.ts, err |-> ""]))

(***************************************************************************)
(* emit.rs, render: the update block.  A line is a record; the text        *)
(* serialize_update prints for an updater is stood for by the updater.     *)
(***************************************************************************)
\* the dependency paths of the model, in the order of str::cmp
DepOrder == <<"a", "a.x", "b">>

dep_rank(d) == CHOOSE i \in 1..Len(DepOrder) : DepOrder[i] = d

RECURSIVE insert_sorted(_, _)
insert_sorted(d, deps) ==
    IF deps = << >> THEN <<d>>
    ELSE IF dep_rank(d) <= dep_rank(Head(deps)) THEN <<d>> \o deps
    ELSE <<Head(deps)>> \o insert_sorted(d, Tail(deps))

\* deps.sort()
RECURSIVE sort_deps(_)
sort_deps(deps) ==
    IF deps = << >> THEN << >>
    ELSE insert_sorted(Head(deps), sort_deps(Tail(deps)))

\* Ord for Vec<String>, the order of the keys of the BTreeMap
RECURSIVE vec_lt(_, _)
vec_lt(a, b) ==
    IF b = << >> THEN FALSE
    ELSE IF a = << >> THEN TRUE
    ELSE IF Head(a) = Head(b) THEN vec_lt(Tail(a), Tail(b))
    ELSE dep_rank(Head(a)) < dep_rank(Head(b))

RECURSIVE btree_keys(_)
btree_keys(keys) ==
    IF keys = {} THEN << >>
    ELSE Let(CHOOSE key \in keys : \A other \in keys \ {key} : vec_lt(key, other),
             LAMBDA key : <<key>> \o btree_keys(keys \ {key}))

\* for updater in &view.updaters { grouped.entry(deps).or_default().push(updater) }
RECURSIVE group_updaters(_, _)
group_updaters(updaters, grouped) ==
    IF updaters = << >> THEN grouped
    ELSE Let(sort_deps(Head(updaters).dependencies), LAMBDA deps :
         group_updaters(Tail(updaters),
                        IF deps \in DOMAIN grouped
                        THEN [grouped EXCEPT ![deps] = Append(@, Head(updaters))]
                        ELSE (deps :> <<Head(updaters)>>) @@ grouped))

\* format!("input.{0} !== currentInput.{0}", d)
comparison(d) == "input." \o d \o " !== currentInput." \o d

\* .join(" || ")
RECURSIVE or_join(_)
or_join(segments) ==
    IF Len(segments) = 0 THEN ""
    ELSE IF Len(segments) = 1 THEN segments[1]
    ELSE segments[1] \o " || " \o or_join(Tail(segments))

IfLine(cond) == [k |-> "if", text |-> "if (" \o cond \o ") {"]
UpdateLine(updater) == [k |-> "update", updater |-> updater]
CloseLine == [k |-> "close", text |-> "}"]

\* render: update_lines
render_update(updaters) ==
    Let(group_updaters(updaters, EmptyMap), LAMBDA grouped :
    Let(btree_keys(DOMAIN grouped), LAMBDA keys :
        Flatten([i \in DOMAIN keys |->
                    <<IfLine(or_join([j \in DOMAIN keys[i] |-> comparison(keys[i][j])]))>>
                    \o [j \in DOMAIN grouped[keys[i]] |-> UpdateLine(grouped[keys[i]][j])]
                    \o <<CloseLine>>])))

(***************************************************************************)
(* The store driven by arbitrary fresh/get/set/union calls.                *)
(***************************************************************************)
Desc == 1..NumDesc

UFIdle ==
    /\ points = << >>
    /\ ret = [op |-> "new", p |-> 0, d |-> 0]
    /\ cls = << >>
    /\ val = << >>

SolveIdle ==
    /\ heap = NewContext
    /\ constraints = << >>
    /\ result = ""
    /\ prev = NewContext

NoInst == [done |-> FALSE, ty |-> Prim(""), out |-> Prim(""), div |-> FALSE]

InstIdle == inst = NoInst

CompileIdle ==
    /\ prog = << >>
    /\ type_env = NewTypeEnv
    /\ compiled_views = << >>
    /\ pending = None
    /\ error = ""
    /\ trace = << >>

\* expr_dependencies has not been called
DepIdle == expr_in = Number /\ dependencies = {"?"}

\* topologically_sort_views has not been called
TopoIdle == graph = EmptyMap /\ sorted = [some |-> FALSE]

\* load_ordered_views has not been called
LoadIdle == files = EmptyMap /\ loaded = [some |-> FALSE]

\* no view body has been handed to the driver
EmitIdle == body = << >> /\ js_view = [some |-> FALSE] /\ update_lines = [some |-> FALSE]

\* no call on an Env has been made
EnvIdle == env_t = [some |-> FALSE] /\ env_was = [some |-> FALSE] /\ env_log = << >>

\* no row has been flattened
FlatIdle == flat = [some |-> FALSE]

\* collect has not been called
DiagIdle == document = << >> /\ diagnostics = [some |-> FALSE]

RestIdle == DepIdle /\ TopoIdle /\ LoadIdle /\ EmitIdle /\ EnvIdle /\ FlatIdle /\ DiagIdle

InitUF == UFIdle /\ SolveIdle /\ InstIdle /\ CompileIdle /\ RestIdle

UFFresh(d) ==
    /\ UNCHANGED <<solveVars, instVars, compileVars, restVars>>
    /\ Len(points) < MaxPoints
    /\ points' = fresh(points, Len(points), d)
    /\ ret' = [op |-> "fresh", p |-> Len(points) + 1, d |-> d]
    /\ cls' = Append(cls, {Len(points) + 1})
    /\ val' = Append(val, d)

UFGet(p) ==
    /\ UNCHANGED <<solveVars, instVars, compileVars, restVars>>
    /\ points' = get(points, p).store
    /\ ret' = [op |-> "get", p |-> p, d |-> get(points, p).descriptor]
    /\ UNCHANGED <<cls, val>>

UFSet(p, d) ==
    /\ UNCHANGED <<solveVars, instVars, compileVars, restVars>>
    /\ points' = set(points, p, d)
    /\ ret' = [op |-> "set", p |-> p, d |-> d]
    /\ val' = [q \in DOMAIN val |-> IF q \in cls[p] THEN d ELSE val[q]]
    /\ UNCHANGED cls

UFUnion(a, b, d) ==
    /\ UNCHANGED <<solveVars, instVars, compileVars, restVars>>
    /\ points' = union(points, a, b, d)
    /\ ret' = [op |-> "union", p |-> a, d |-> d]
    /\ cls' = [q \in DOMAIN cls |->
                 IF q \in cls[a] \cup cls[b] THEN cls[a] \cup cls[b] ELSE cls[q]]
    /\ val' = [q \in DOMAIN val |->
                 IF q \in cls[a] \cup cls[b] THEN d ELSE val[q]]

NextUF ==
    \/ \E d \in Desc : UFFresh(d)
    \/ \E p \in DOMAIN points : UFGet(p)
    \/ \E p \in DOMAIN points, d \in Desc : UFSet(p, d)
    \/ \E a \in DOMAIN points, b \in DOMAIN points, d \in Desc : UFUnion(a, b, d)

SpecUF == InitUF /\ [][NextUF]_vars

\* C1: after any sequence of fresh/union/set/get calls every point reads the
\* descriptor last written to its class by union or set (so all points
\* unioned into one class read the same descriptor, right after union(a, b, d)
\* both a and b read d, a set through one member is read through every other
\* member and through no point of another class), and get returns it.
C1_ClassReadsLastDescriptor ==
    /\ \A p \in DOMAIN points : get(points, p).descriptor = val[p]
    /\ \A p \in DOMAIN points : \A q \in cls[p] :
           get(points, p).descriptor = get(points, q).descriptor
    /\ ret.op = "get" => ret.d = val[ret.p]

\* a set through a linked (non-root) member of a class of three, with a point
\* of another class holding another descriptor
C1_Witness ==
    /\ ret.op = "set"
    /\ redundant(points, ret.p)
    /\ Cardinality(cls[ret.p]) >= 3
    /\ \E q \in cls[ret.p] : q # ret.p /\ get(points, q).descriptor = ret.d
    /\ \E r \in DOMAIN points : r \notin cls[ret.p] /\ get(points, r).descriptor # ret.d

(***************************************************************************)
(* solve driven over constraint lists.  The points the constraints speak   *)
(* of are created first, as infer creates them; then solve takes the       *)
(* constraints of the list one by one and stops at the first error.        *)
(***************************************************************************)
MaxConstraints == 3

\* type points 1..3: x (named), y (named), a fresh variable
\* row points  1..2: two flexible tails; 3..: extensions over them
SolveHeap ==
    LET h1 == fresh_named(NewContext, "x").h
        h2 == fresh_named(h1, "y").h
        h3 == fresh_point(h2).h
        h4 == fresh_row_point(h3).h
        h5 == fresh_row_point(h4).h
        h6 == fresh_row_extend(h5, "a" :> Prim("number"), 1).h
        h7 == fresh_row_extend(h6, "b" :> Prim("string"), 2).h
        h8 == fresh_row_extend(h7, "b" :> Var(3), 1).h
        h9 == fresh_row_extend(h8, ("a" :> Var(1)) @@ ("c" :> Var(2)), 2).h
        h10 == fresh_row_extend(h9, "c" :> Prim("string"), 3).h
        h11 == fresh_row_extend(h10, "a" :> Record(2), 1).h
    IN  h11

ConstraintPool ==
    { Equal(1, Var(1), Var(2)),
      Equal(2, Var(3), Var(1)),
      Equal(3, Var(1), Array(Var(2))),
      Equal(4, Array(Var(2)), Var(2)),
      Equal(5, Record(3), Record(4)),
      Equal(6, Record(1), Record(2)),
      Equal(7, Record(1), Record(4)),
      Equal(8, Record(3), Record(5)),
      Equal(9, Record(6), Record(3)),
      Equal(10, Record(7), Record(4)),
      Equal(11, Record(8), Record(4)),
      Equal(12, Var(3), Prim("number")),
      Equal(13, Fun(<<Var(1)>>, Var(3)), Fun(<<Prim("string")>>, Var(2))),
      Equal(14, Var(2), Record(7)) }

InitSolve ==
    /\ UFIdle
    /\ InstIdle
    /\ CompileIdle
    /\ RestIdle
    /\ heap = SolveHeap
    /\ constraints = << >>
    /\ result = ""
    /\ prev = SolveHeap

\* one iteration of the loop of solve: unify(ctx, span, t1, t2)?
SolveConstraint(c) ==
    /\ result = ""
    /\ ~inst.done
    /\ Len(constraints) < MaxConstraints
    /\ \E r \in {unify(heap, c.t1, c.t2, MaxDepth)} :
           /\ heap' = r.h
           /\ result' = r.err
    /\ constraints' = Append(constraints, c)
    /\ prev' = heap
    /\ UNCHANGED <<ufVars, instVars, compileVars, restVars>>

NextSolve == \E c \in ConstraintPool : SolveConstraint(c)

SpecSolve == InitSolve /\ [][NextSolve]_vars

(***************************************************************************)
(* solve over lists that hold mismatched constructors: primitives,         *)
(* functions of one and of two arguments, unions with one and with two     *)
(* tags, arrays and records over the points of SolveHeap.                  *)
(***************************************************************************)
MismatchPool ==
    { Equal(1, Var(3), Prim("number")),
      Equal(2, Var(3), Prim("string")),
      Equal(3, Prim("number"), Prim("string")),
      Equal(4, Fun(<<Var(1)>>, Var(3)), Fun(<<Prim("string"), Var(2)>>, Prim("number"))),
      Equal(5, Fun(<<Var(1)>>, Var(3)), Fun(<<Var(2)>>, Prim("number"))),
      Equal(6, Var(2), Fun(<<Prim("string"), Prim("string")>>, Var(3))),
      Equal(7, DiscriminatedUnion("a" :> 1),
               DiscriminatedUnion(("b" :> 4) @@ ("a" :> 3))),
      Equal(8, DiscriminatedUnion("a" :> 2), DiscriminatedUnion("a" :> 3)),
      Equal(9, Var(1), DiscriminatedUnion(("b" :> 2) @@ ("a" :> 4))),
      Equal(10, Array(Var(1)), Prim("string")),
      Equal(11, Record(3), Array(Var(2))),
      Equal(12, Var(1), Var(2)),
      Equal(13, Fun(<<Var(3)>>, Var(3)), DiscriminatedUnion("a" :> 1)) }

NextClassify == \E c \in MismatchPool : SolveConstraint(c)

SpecClassify == InitSolve /\ [][NextClassify]_vars

(***************************************************************************)
(* solve over lists that equate unbound variables with each other and      *)
(* flexible row tails with each other: two named points, two fresh ones    *)
(* and three fresh row tails.                                              *)
(***************************************************************************)
MarksHeap ==
    LET h1 == fresh_named(NewContext, "x").h
        h2 == fresh_named(h1, "y").h
        h3 == fresh_point(h2).h
        h4 == fresh_point(h3).h
        h5 == fresh_row_point(h4).h
        h6 == fresh_row_point(h5).h
        h7 == fresh_row_point(h6).h
    IN  h7

VariablePairs ==
    {Equal(0, Var(pq[1]), Var(pq[2])) :
        pq \in {ab \in (DOMAIN MarksHeap.tp) \X (DOMAIN MarksHeap.tp) : ab[1] # ab[2]}}
    \cup {Equal(0, Record(rt[1]), Record(rt[2])) :
             rt \in {ab \in (DOMAIN MarksHeap.rp) \X (DOMAIN MarksHeap.rp) : ab[1] # ab[2]}}

InitMarks ==
    /\ UFIdle
    /\ InstIdle
    /\ CompileIdle
    /\ RestIdle
    /\ heap = MarksHeap
    /\ constraints = << >>
    /\ result = ""
    /\ prev = MarksHeap

NextMarks == \E c \in VariablePairs : SolveConstraint(c)

SpecMarks == InitMarks /\ [][NextMarks]_vars

(***************************************************************************)
(* InferContext::instantiate applied to a type over the points of the      *)
(* context, after solve has taken up to MaxPrior constraints.              *)
(***************************************************************************)
MaxPrior == 2

InstTypes ==
    { Var(1), Var(3), Array(Var(2)),
      Fun(<<Var(1), Var(2), Var(3)>>, Var(1)),
      Fun(<<Var(1)>>, Var(2)),
      Fun(<<Record(3), Var(3)>>, Record(3)),
      Record(3), Record(6), Record(7), Record(8),
      DiscriminatedUnion(("a" :> 3) @@ ("b" :> 4)),
      DiscriminatedUnion(("a" :> 1) @@ ("b" :> 2)),
      DiscriminatedUnion("a" :> 7) }

Instantiate(ty) ==
    /\ result = ""
    /\ ~inst.done
    /\ Len(constraints) <= MaxPrior
    /\ \E r \in {instantiate(heap, ty)} :
           /\ heap' = r.h
           /\ inst' = [done |-> TRUE, ty |-> ty, out |-> r.ty, div |-> r.div]
    /\ prev' = heap
    /\ UNCHANGED <<constraints, result, ufVars, compileVars, restVars>>

NextInstantiate ==
    \/ \E c \in ConstraintPool : SolveConstraint(c)
    \/ \E ty \in InstTypes : Instantiate(ty)

SpecInstantiate == InitSolve /\ [][NextInstantiate]_vars

(***************************************************************************)
(* compile.rs: compile over a program of two views, the callee B and its   *)
(* caller A, given in compilation order.  One step compiles the next view, *)
(* the following step solves it.                                           *)
(***************************************************************************)
View(name, node) == [name |-> name, node |-> node]

Lit(s) == Template(<<Literal(s)>>)
Bind(name, expr) == Attr(name, ExprValue(expr))
P(children) == Element("p", << >>, children)
Div(children) == Element("div", << >>, children)
For(seq, var, child) ==
    Element("for", <<Bind("seq", seq), Attr("as", Lit(var))>>, <<child>>)
Case(name, child) == Element("case", <<Attr("name", Lit(name))>>, <<child>>)
Switch(on, cases) == Element("switch", <<Bind("on", on)>>, cases)


\* the bodies of view B
Callees ==
    { Div(<<ExprNode(Variable("x"))>>),
      Div(<<For(Variable("x"), "i", P(<<Text("t")>>))>>),
      Div(<<ExprNode(Field(Variable("x"), "a"))>>),
      Switch(Variable("x"),
             <<Case("a", P(<<ExprNode(Field(Variable("a"), "b")),
                             ExprNode(Field(Variable("a"), "c"))>>)),
               Case("b", P(<<ExprNode(Field(Variable("b"), "c"))>>))>>),
      Div(<<Text("t")>>),
      Div(<<ExprNode(FunctionCall(Variable("f"), <<Variable("x")>>))>>),
      Div(<<For(Variable("i"), "i", P(<<ExprNode(Variable("i"))>>)), ExprNode(Variable("x"))>>),
      Div(<<ExprNode(FunctionCall(Variable("numberToString"), <<Variable("x")>>))>>),
      Element("if", <<Bind("condition", Variable("x"))>>,
              <<Element("then", << >>, <<P(<<ExprNode(Variable("y"))>>)>>),
                Element("else", << >>, <<Text("t")>>)>>),
      Element("input", <<Bind("checked", Variable("x")),
                         Attr("value", Template(<<Literal("v"),
                                                  Interpolation(Variable("w"))>>)),
                         Bind("data-id", Variable("z")),
                         Attr("class", Lit("c"))>>, << >>),
      Element("mount", <<Bind("use", Variable("x"))>>, << >>),
      For(Variable("x"), "i", P(<<Text("t")>>)),
      Div(<<ExprNode(Pipe(Variable("x"), Variable("f")))>>),
      Switch(Variable("x"), <<Case("a", P(<<ExprNode(Field(Variable("a"), "type"))>>))>>),
      Switch(Variable("x"), <<Case("a", Text("t")), Case("a", Text("t"))>>) }

Call(name, attrs) == ComponentCall(name, attrs, << >>)

\* the bodies of view A
Callers ==
    { Call("B", <<Bind("x", Variable("y"))>>),
      Div(<<Call("B", <<Bind("x", Variable("y"))>>),
            Call("B", <<Bind("x", Variable("z"))>>)>>),
      Div(<<Call("B", <<Bind("x", Variable("y"))>>),
            Call("B", <<Bind("x", Variable("z"))>>),
            ExprNode(Field(Variable("y"), "b")), ExprNode(Field(Variable("z"), "c"))>>),
      Div(<<Call("B", <<Bind("x", Variable("y"))>>),
            Call("B", <<Bind("x", Variable("z"))>>),
            For(Variable("y"), "i", P(<<ExprNode(Variable("i"))>>)),
            For(Variable("z"), "k",
                P(<<ExprNode(FunctionCall(Variable("numberToString"),
                                      <<Variable("k")>>))>>))>>),
      Call("B", << >>),
      Call("B", <<Bind("x", Variable("y")), Bind("w", Variable("z"))>>),
      Call("B", <<Bind("w", Variable("z"))>>),
      Div(<<ExprNode(Variable("y")), Call("B", <<Bind("w", Variable("z"))>>)>>),
      ComponentCall("B", <<Bind("x", Variable("y"))>>, <<ExprNode(Variable("z"))>>),
      Call("B", <<Attr("x", Template(<<Literal("t"), Interpolation(Variable("y"))>>))>>),
      Call("C", <<Bind("x", Variable("y"))>>),
      Div(<<ExprNode(Variable("x")), Call("B", <<Bind("x", Variable("x"))>>)>>),
      Switch(Variable("y"), <<Case("a", Call("B", <<Bind("x", Variable("a"))>>)),
                              Case("b", P(<<ExprNode(Field(Variable("b"), "c"))>>))>>),
      Call("B", <<Bind("x", Field(Variable("y"), "a"))>>),
      Div(<<Call("B", <<Bind("x", Variable("y"))>>),
            Call("B", <<Bind("x", Number)>>)>>) }

Programs == { <<View("B", b), View("A", a)>> : b \in Callees, a \in Callers }

InitCompile ==
    /\ UFIdle /\ SolveIdle /\ InstIdle /\ RestIdle
    /\ prog \in Programs
    /\ type_env = NewTypeEnv
    /\ compiled_views = << >>
    /\ pending = None
    /\ error = ""
    /\ trace = << >>

\* let root = compile_view(&view_info.node, &mut context, &mut env, ..)?
CompileView ==
    /\ error = ""
    /\ ~pending.some
    /\ Len(compiled_views) < Len(prog)
    /\ \E r \in {compile_view([env |-> type_env, context |-> NewCompileContext,
                               trace |-> NewTrace],
                              prog[Len(compiled_views) + 1].node)} :
          /\ type_env' = r.c.env
          /\ trace' = Append(trace, r.c.trace)
          /\ error' = r.err
          /\ pending' = IF r.err # "" THEN None
                        ELSE Some([view_name |-> prog[Len(compiled_views) + 1].name,
                                   root |-> r.expr, context |-> r.c.context])
    /\ UNCHANGED <<prog, compiled_views, ufVars, solveVars, instVars, restVars>>

\* let ts_type = env.solve_view(view_name.clone())?; compiled_views.push(..)
SolveView ==
    /\ error = ""
    /\ pending.some
    /\ \E s \in {solve_view(type_env, pending.v.view_name)} :
          /\ type_env' = s.t
          /\ error' = s.err
          /\ compiled_views' =
                IF s.err # "" THEN compiled_views
                ELSE Append(compiled_views,
                            [view_name |-> pending.v.view_name, root |-> pending.v.root,
                             context |-> pending.v.context, ts_type |-> s.ts_type])
    /\ pending' = None
    /\ UNCHANGED <<prog, trace, ufVars, solveVars, instVars, restVars>>

NextCompile ==
    \/ CompileView
    \/ SolveView

SpecCompile == InitCompile /\ [][NextCompile]_vars

(***************************************************************************)
(* compile over one view whose body nests elements, bindings, <for>, <if>  *)
(* and <switch> up to MaxNest deep.                                        *)
(***************************************************************************)
MaxNest == 3

Leaves == {Text("t"), ExprNode(Variable("x"))}

\* an element with a bound property and a bound data attribute
BoundDiv(children) ==
    Element("div", <<Bind("class", Variable("y")),
                     Attr("data-id", Template(<<Interpolation(Variable("w"))>>))>>,
            children)

\* an element whose only attribute is literal
Static(children) == Element("div", <<Attr("class", Lit("c"))>>, children)

Then(child) ==
    Element("if", <<Bind("condition", Variable("b"))>>,
            <<Element("then", << >>, <<child>>)>>)

Else(child) ==
    Element("if", <<Bind("condition", Variable("b"))>>,
            <<Element("then", << >>, <<Text("t")>>),
              Element("else", << >>, <<child>>)>>)

Wrap(t) ==
    { Div(<<t>>),
      BoundDiv(<<t, ExprNode(Variable("z"))>>),
      Static(<<t>>),
      For(Variable("x"), "i", t),
      Then(t),
      Else(t),
      Switch(Variable("x"), <<Case("a", t)>>) }

RECURSIVE Nest(_)
Nest(n) == IF n = 0 THEN Leaves ELSE Leaves \cup UNION {Wrap(t) : t \in Nest(n - 1)}

InitLower ==
    /\ UFIdle /\ SolveIdle /\ InstIdle /\ RestIdle
    /\ prog \in {<<View("A", t)>> : t \in Nest(MaxNest)}
    /\ type_env = NewTypeEnv
    /\ compiled_views = << >>
    /\ pending = None
    /\ error = ""
    /\ trace = << >>

SpecLower == InitLower /\ [][NextCompile]_vars

(***************************************************************************)
(* expr_dependencies on the expressions built in at most MaxExprDepth      *)
(* steps from a number, a variable and a built-in name.                    *)
(***************************************************************************)
MaxExprDepth == 3

ExprAtoms == {Number, Variable("a"), Variable("lookup")}

\* one more constructor around the expressions of s
GrowExprs(s) ==
    s \cup {Field(e, f) : e \in s, f \in {"x", "y"}}
      \cup {FunctionCall(e, << >>) : e \in s}
      \cup {FunctionCall(e, <<Variable("b")>>) : e \in s}
      \cup {FunctionCall(Variable("f"), <<e>>) : e \in s}
      \cup {FunctionCall(Variable("f"), <<e, Field(Variable("b"), "y")>>) : e \in s}
      \cup {Pipe(e, Variable("f")) : e \in s}
      \cup {Pipe(Variable("b"), e) : e \in s}
      \cup {StringTemplate(<<Literal("s"), Interpolation(e)>>) : e \in s}

RECURSIVE ExprsOfDepth(_)
ExprsOfDepth(d) == IF d = 0 THEN ExprAtoms ELSE GrowExprs(ExprsOfDepth(d - 1))

InitDeps ==
    /\ UFIdle /\ SolveIdle /\ InstIdle /\ CompileIdle /\ TopoIdle /\ LoadIdle
    /\ EnvIdle /\ FlatIdle /\ DiagIdle
    /\ EmitIdle
    /\ expr_in \in ExprsOfDepth(MaxExprDepth)
    /\ dependencies = {"?"}

ExprDependencies ==
    /\ dependencies = {"?"}
    /\ dependencies' = expr_dependencies(expr_in)
    /\ UNCHANGED <<expr_in, ufVars, solveVars, instVars, compileVars, topoVars, loadVars,
                 emitVars,
                   envVars, flatVars, diagVars>>

NextDeps == ExprDependencies

SpecDeps == InitDeps /\ [][NextDeps]_vars

(***************************************************************************)
(* topologically_sort_views on every dependency map over NumViews names.   *)
(***************************************************************************)
NumViews == 3

ViewNamePool == <<"A", "B", "C", "D", "E">>
ViewNames == {ViewNamePool[i] : i \in 1..NumViews}

\* the name span of a view: where its name stands in the pool
NameSpan(name) ==
    [start |-> position(ViewNamePool, name), end |-> position(ViewNamePool, name) + 1,
     context |-> 1]

Graphs == UNION {[S -> SUBSET ViewNames] : S \in SUBSET ViewNames}

InitTopo ==
    /\ UFIdle /\ SolveIdle /\ InstIdle /\ CompileIdle /\ DepIdle /\ LoadIdle
    /\ EnvIdle /\ FlatIdle /\ DiagIdle
    /\ EmitIdle
    /\ graph \in Graphs
    /\ sorted = None

TopoSortViews ==
    /\ ~sorted.some
    /\ sorted' = Some(topologically_sort_views(graph, [v \in DOMAIN graph |-> NameSpan(v)]))
    /\ UNCHANGED <<graph, ufVars, solveVars, instVars, compileVars, depVars, loadVars,
                 emitVars,
                   envVars, flatVars, diagVars>>

NextTopo == TopoSortViews

SpecTopo == InitTopo /\ [][NextTopo]_vars

(***************************************************************************)
(* load_ordered_views from the entry ./a.vg on the file systems made of    *)
(* a.vg, b.vg and sub/c.vg (which may be missing), each with a handful of  *)
(* <require> lists and views.                                              *)
(***************************************************************************)
Require(raw_src) == Element("require", <<Attr("src", Lit(raw_src))>>, << >>)
ViewNode(name, uses) ==
    Element("view", <<Attr("name", Lit(name))>>,
            <<Div([i \in DOMAIN uses |-> Call(uses[i], << >>)])>>)

PathA == <<"a.vg">>
PathB == <<"b.vg">>
PathC == <<"sub", "c.vg">>
EntryPath == <<".", "a.vg">>

FilesA ==
    {r \o v :
       r \in {<< >>, <<Require(<<"b.vg">>)>>, <<Require(<<"a.vg">>)>>,
              <<Require(<<".", "b.vg">>), Require(<<"b.vg">>)>>,
              <<Require(<<"b.vg">>), Require(<<"sub", "c.vg">>)>>,
              <<Require(<<"sub", "c.vg">>)>>},
       v \in {<<ViewNode("A", << >>)>>, <<ViewNode("A", <<"B">>)>>,
              <<ViewNode("A", <<"C">>)>>, <<ViewNode("A", <<"B", "C">>)>>,
              <<ViewNode("A", <<"D">>)>>, <<ViewNode("A", <<"A">>)>>,
              <<ViewNode("A", << >>), ViewNode("A", << >>)>>}}

FilesB ==
    {r \o v :
       r \in {<< >>, <<Require(<<"sub", "c.vg">>)>>, <<Require(<<"a.vg">>)>>},
       v \in {<< >>, <<ViewNode("B", << >>)>>, <<ViewNode("B", <<"C">>)>>,
              <<ViewNode("B", <<"A">>)>>, <<ViewNode("A", << >>)>>}}

FilesC ==
    {r \o v :
       r \in {<< >>, <<Require(<<"..", "a.vg">>)>>, <<Require(<<"..", "b.vg">>)>>,
              <<Require(<<"c.vg">>)>>},
       v \in {<<ViewNode("C", << >>)>>, <<ViewNode("C", <<"A">>)>>,
              <<ViewNode("B", << >>)>>,
              <<ViewNode("C", << >>), ViewNode("B", <<"C">>)>>}}

FileSystems ==
    {(PathA :> a) @@ (PathB :> b) @@ (PathC :> c) : a \in FilesA, b \in FilesB, c \in FilesC}
    \cup {(PathA :> a) @@ (PathB :> b) : a \in FilesA, b \in FilesB}

\* the orders in which a HashMap of the modules may be iterated
IterationOrders ==
    {o \in [1..3 -> {PathA, PathB, PathC}] : \A i, j \in 1..3 : o[i] = o[j] => i = j}

InitLoad ==
    /\ UFIdle /\ SolveIdle /\ InstIdle /\ CompileIdle /\ DepIdle /\ TopoIdle
    /\ EnvIdle /\ FlatIdle /\ DiagIdle
    /\ EmitIdle
    /\ files \in FileSystems
    /\ loaded = None

LoadOrderedViews ==
    /\ ~loaded.some
    /\ \E order \in IterationOrders :
          loaded' = Some(load_ordered_views(EntryPath, files, order))
    /\ UNCHANGED <<files, ufVars, solveVars, instVars, compileVars, depVars, topoVars,
                 emitVars,
                   envVars, flatVars, diagVars>>

NextLoad == LoadOrderedViews

SpecLoad == InitLoad /\ [][NextLoad]_vars

(***************************************************************************)
(* The driver and render on view bodies of at most MaxBody nodes: text     *)
(* bindings and childless elements whose bindings are strings, so that     *)
(* every body passes solve_view.                                           *)
(***************************************************************************)
MaxBody == 3

BodyNodes ==
    {ExprNode(Variable("a")),
     ExprNode(Variable("b")),
     ExprNode(Field(Variable("a"), "x")),
     ExprNode(StringTemplate(<<Literal("s")>>)),
     Element("div", <<Attr("class", Template(<<Literal("s")>>))>>, << >>),
     Element("div", <<Attr("class", Template(<<Interpolation(Variable("a")),
                                               Literal("-"),
                                               Interpolation(Variable("a"))>>))>>,
             << >>),
     Element("div", <<Attr("class", ExprValue(Variable("a"))),
                      Attr("data-id", Template(<<Interpolation(Variable("b")),
                                                 Interpolation(Variable("a"))>>))>>,
             << >>),
     Element("div", <<Attr("data-id", ExprValue(Field(Variable("a"), "x")))>>,
             << >>)}

Bodies == UNION {[1..n -> BodyNodes] : n \in 1..MaxBody}

InitEmit ==
    /\ UFIdle /\ SolveIdle /\ InstIdle /\ CompileIdle /\ DepIdle /\ TopoIdle
    /\ EnvIdle /\ FlatIdle /\ DiagIdle
    /\ LoadIdle
    /\ body \in Bodies
    /\ js_view = NewCompileContext
    /\ update_lines = [some |-> FALSE]

\* compile_node on the next node of the body: what it does to the context
CompileNode ==
    /\ body # << >>
    /\ body' = Tail(body)
    /\ \E node \in {Head(body)} :
          js_view' =
             IF node.k = "Expr" THEN push_text_binding(js_view, node.expr)
             ELSE Let(element_parts(node.attrs, Len(js_view.constructors)),
                      LAMBDA parts :
                      push_element(js_view,
                                   JsElement(node.name, parts.props, parts.dataset,
                                             << >>),
                                   parts.prop_updaters))
    /\ UNCHANGED <<update_lines, ufVars, solveVars, instVars, compileVars, depVars,
                   topoVars, loadVars,
                   envVars, flatVars, diagVars>>

\* render, once the body is compiled
Render ==
    /\ body = << >>
    /\ ~update_lines.some
    /\ update_lines' = Some(render_update(js_view.updaters))
    /\ UNCHANGED <<body, js_view, ufVars, solveVars, instVars, compileVars, depVars,
                   topoVars, loadVars,
                   envVars, flatVars, diagVars>>

NextEmit == CompileNode \/ Render

SpecEmit == InitEmit /\ [][NextEmit]_vars

(***************************************************************************)
(* An Env driven by at most MaxEnvCalls calls of push_scope, pop_scope and *)
(* get, on an ordinary name and two built-in names.                        *)
(***************************************************************************)
MaxEnvCalls == 5

EnvNames == {"a", "boolean", "lookup"}

EnvScopes ==
    { "a" :> Prim("string"),
      ("a" :> Prim("number")) @@ ("lookup" :> Array(Prim("string"))) }

InitEnv ==
    /\ UFIdle /\ SolveIdle /\ InstIdle /\ CompileIdle /\ DepIdle /\ TopoIdle
    /\ LoadIdle /\ EmitIdle /\ FlatIdle /\ DiagIdle
    /\ env_t = NewTypeEnv
    /\ env_was = NewTypeEnv
    /\ env_log = << >>

EnvPushScope(scope) ==
    /\ Len(env_log) < MaxEnvCalls
    /\ env_t' = [env_t EXCEPT !.env = push_scope(@, scope)]
    /\ env_was' = env_t
    /\ env_log' = Append(env_log, [op |-> "push_scope", scope |-> scope])
    /\ UNCHANGED <<ufVars, solveVars, instVars, compileVars, depVars, topoVars,
                   loadVars, emitVars, flatVars, diagVars>>

EnvPopScope ==
    /\ Len(env_log) < MaxEnvCalls
    /\ env_t.env.scopes # << >>
    /\ env_t' = [env_t EXCEPT !.env = pop_scope(@)]
    /\ env_was' = env_t
    /\ env_log' = Append(env_log, [op |-> "pop_scope"])
    /\ UNCHANGED <<ufVars, solveVars, instVars, compileVars, depVars, topoVars,
                   loadVars, emitVars, flatVars, diagVars>>

EnvGet(name) ==
    /\ Len(env_log) < MaxEnvCalls
    /\ \E r \in {Env_get(env_t, name)} :
          /\ env_t' = r.t
          /\ env_log' = Append(env_log, [op |-> "get", name |-> name, ty |-> r.ty])
    /\ env_was' = env_t
    /\ UNCHANGED <<ufVars, solveVars, instVars, compileVars, depVars, topoVars,
                   loadVars, emitVars, flatVars, diagVars>>

NextEnv ==
    \/ \E scope \in EnvScopes : EnvPushScope(scope)
    \/ EnvPopScope
    \/ \E name \in EnvNames : EnvGet(name)

SpecEnv == InitEnv /\ [][NextEnv]_vars

(***************************************************************************)
(* The three flattenings of a RowExtend chain: gather_fields of the solver,*)
(* collect_row_fields of the scheme instantiation and row_to_fields of the *)
(* type rendering, each applied to the same row.                           *)
(***************************************************************************)
MaxChain == 3

FlatNames == {"a", "b"}

FlatTypes == {Prim("number"), Prim("string")}

\* One extension of a chain: a single field.
Extensions == {name :> ty : name \in FlatNames, ty \in FlatTypes}

Chains == UNION {[1..len -> Extensions] : len \in 1..MaxChain}

\* The context that holds the chain: a flexible tail and then the extensions,
\* innermost first, so that the last row point made is the outermost one.
RECURSIVE chain_heap(_, _)
chain_heap(chain, i) ==
    IF i > Len(chain) THEN fresh_row_point(NewContext)
    ELSE Let(chain_heap(chain, i + 1), LAMBDA inner :
             fresh_row_extend(inner.h, chain[i], inner.p))

NotYet == [done |-> FALSE]

InitFlat ==
    /\ UFIdle /\ SolveIdle /\ InstIdle /\ CompileIdle /\ DepIdle /\ TopoIdle
    /\ LoadIdle /\ EmitIdle /\ EnvIdle /\ DiagIdle
    /\ \E chain \in Chains :
          \E c \in {chain_heap(chain, 1)} :
             flat = [some |-> TRUE, chain |-> chain, h |-> c.h, row |-> c.p,
                     solver |-> NotYet, instance |-> NotYet, rendered |-> NotYet]

\* unify_record_structure's use: gather_fields from the row, no field known.
FlatGather ==
    /\ flat.some /\ ~flat.solver.done
    /\ \E g \in {gather_fields(flat.h, EmptyMap, flat.row, MaxDepth)} :
          flat' = [flat EXCEPT !.solver = [done |-> TRUE, fields |-> g.fields,
                                           tail |-> g.tail, div |-> g.div]]
    /\ UNCHANGED <<ufVars, solveVars, instVars, compileVars, depVars, topoVars,
                   loadVars, emitVars, envVars, diagVars>>

\* instantiate_row with collect_fields set, which flattens the chain with
\* collect_row_fields into one extension of the instance.
FlatInstantiate ==
    /\ flat.some /\ ~flat.instance.done
    /\ \E r \in {instantiate_row(NewSeen(flat.h), flat.row, TRUE, MaxDepth)} :
          \E g \in {get_row(r.s.h, r.p)} :
             flat' = [flat EXCEPT !.instance = [done |-> TRUE, fields |-> g.desc.fields,
                                                div |-> r.div]]
    /\ UNCHANGED <<ufVars, solveVars, instVars, compileVars, depVars, topoVars,
                   loadVars, emitVars, envVars, diagVars>>

\* type_to_ts_type of the record of the row, which flattens with row_to_fields.
FlatRender ==
    /\ flat.some /\ ~flat.rendered.done
    /\ \E r \in {type_to_ts_type(flat.h, Record(flat.row), MaxDepth)} :
          flat' = [flat EXCEPT !.rendered = [done |-> TRUE, fields |-> r.ts.fields,
                                             div |-> r.div]]
    /\ UNCHANGED <<ufVars, solveVars, instVars, compileVars, depVars, topoVars,
                   loadVars, emitVars, envVars, diagVars>>

NextFlat ==
    \/ FlatGather
    \/ FlatInstantiate
    \/ FlatRender

SpecFlat == InitFlat /\ [][NextFlat]_vars

(***************************************************************************)
(* lsp/diagnostics.rs over parser.rs.  The text of the document is a       *)
(* sequence of tokens, one offset wide each: an opening tag "<a", the      *)
(* closing tags "/a" and "/b", and a line break "nl" (a text node).        *)
(***************************************************************************)
MaxText == 5

Tokens == {"<a", "/a", "/b", "nl"}

Texts == UNION {[1..n -> Tokens] : n \in 1..MaxText}

TagName(token) == IF token = "/b" THEN "b" ELSE "a"

\* element_parser's validate: the closing tag that does not match is reported
\* at the span of its name
closing_tag_error(source, name, cn, at) ==
    IF cn # name
    THEN <<Error("Closing tag '" \o cn \o "' does not match opening tag '"
                 \o name \o "'", Span(source, at - 1, at), << >>)>>
    ELSE << >>

\* a slip the parser could make: the closing tag is checked before the
\* children are parsed
element_errors_outer_first(children_errors, own_errors) ==
    own_errors \o children_errors

\* the errors emitted while an element is parsed: those of its children,
\* which are complete first, and then its own
element_errors(children_errors, own_errors) == children_errors \o own_errors

\* node_parser.repeated() from the token at pos: the errors emitted by the
\* nodes that were parsed, the token it stopped at and the furthest token at
\* which a node failed.  An element that is not closed fails as a whole and
\* what it emitted is dropped.
RECURSIVE parse_nodes(_, _, _)
parse_nodes(text, source, pos) ==
    IF pos > Len(text) THEN [errors |-> << >>, pos |-> pos, alt |-> pos]
    ELSE IF text[pos] = "nl" THEN parse_nodes(text, source, pos + 1)
    ELSE IF text[pos] = "<a"
    THEN Let(parse_nodes(text, source, pos + 1), LAMBDA children :
         IF children.pos <= Len(text) /\ text[children.pos] \in {"/a", "/b"}
         THEN Let(parse_nodes(text, source, children.pos + 1), LAMBDA rest :
                  [errors |-> element_errors(
                                 children.errors,
                                 closing_tag_error(source, TagName(text[pos]),
                                                   TagName(text[children.pos]),
                                                   children.pos))
                              \o rest.errors,
                   pos |-> rest.pos, alt |-> rest.alt])
         ELSE [errors |-> << >>, pos |-> pos, alt |-> children.alt])
    ELSE [errors |-> << >>, pos |-> pos, alt |-> pos]

\* parse_template: Ok(nodes) when nothing was emitted and the text was
\* consumed, else the emitted errors followed by the error of the failure
parse_template(text, source) ==
    Let(parse_nodes(text, source, 1), LAMBDA r :
        IF r.pos > Len(text)
        THEN [ok |-> r.errors = << >>, errors |-> r.errors]
        ELSE [ok |-> FALSE,
              errors |-> Append(r.errors,
                                Error("found unexpected token",
                                      Span(source, r.alt - 1,
                                           IF r.alt > Len(text) THEN r.alt - 1
                                           ELSE r.alt),
                                      << >>))])

\* LineIndex::offset_to_position: the line is the number of line breaks
\* before the offset, the character the distance from the start of the line
offset_to_position(text, offset) ==
    LET capped_offset == IF offset < Len(text) THEN offset ELSE Len(text)
        breaks == {i \in 1..capped_offset : text[i] = "nl"}
        line_start == IF breaks = {} THEN 0
                      ELSE CHOOSE i \in breaks : \A j \in breaks : j <= i
    IN  [line |-> Cardinality(breaks), character |-> capped_offset - line_start]

range_from_span(text, span) ==
    [start |-> offset_to_position(text, span.start),
     end |-> offset_to_position(text, span.end)]

\* diagnostic_from_error: None for an error of another source
diagnostic_from_error(text, source_id, err) ==
    IF err.main_span.context # source_id THEN None
    ELSE Some([range |-> range_from_span(text, err.main_span),
               message |-> err.message])

RECURSIVE diagnostics_from_errors(_, _, _)
diagnostics_from_errors(text, source_id, errs) ==
    IF errs = << >> THEN << >>
    ELSE Let(diagnostic_from_error(text, source_id, Head(errs)), LAMBDA diagnostic :
             (IF diagnostic.some THEN <<diagnostic.v>> ELSE << >>)
             \o diagnostics_from_errors(text, source_id, Tail(errs)))

\* the comparison of sort_by: (start line, start character, end line, end
\* character), lexicographically
range_lt(a, b) ==
    LET ka == <<a.range.start.line, a.range.start.character,
                a.range.end.line, a.range.end.character>>
        kb == <<b.range.start.line, b.range.start.character,
                b.range.end.line, b.range.end.character>>
    IN  \E i \in 1..4 : ka[i] < kb[i] /\ \A j \in 1..(i - 1) : ka[j] = kb[j]

\* sort_by, which is stable
RECURSIVE sort_by_range(_)
sort_by_range(ds) ==
    IF ds = << >> THEN << >>
    ELSE LET sorted_rest == sort_by_range(Tail(ds))
             before == {i \in DOMAIN sorted_rest : range_lt(sorted_rest[i], Head(ds))}
         IN  SubSeq(sorted_rest, 1, Cardinality(before))
             \o <<Head(ds)>>
             \o SubSeq(sorted_rest, Cardinality(before) + 1, Len(sorted_rest))

\* collect: the errors of the loader as they come, or the one error of
\* compile_views
collect(text, source_id, compile_error) ==
    Let(parse_template(text, source_id), LAMBDA loader :
        IF ~loader.ok
        THEN diagnostics_from_errors(text, source_id, loader.errors)
        ELSE sort_by_range(
                IF compile_error.some
                THEN diagnostics_from_errors(text, source_id, <<compile_error.v>>)
                ELSE << >>))

\* what compile_views can return for a text that parses: nothing, or one
\* error with a span in this text or in another source
CompileErrors(text) ==
    {None} \cup {Some(Error("compile", Span(source, at, at + 1), << >>)) :
                   source \in {0, 1}, at \in 0..(Len(text) - 1)}

InitDiag ==
    /\ UFIdle /\ SolveIdle /\ InstIdle /\ CompileIdle /\ DepIdle /\ TopoIdle
    /\ LoadIdle /\ EmitIdle /\ EnvIdle /\ FlatIdle
    /\ document \in Texts
    /\ diagnostics = [some |-> FALSE]

Collect ==
    /\ ~diagnostics.some
    /\ \E compile_error \in CompileErrors(document) :
          diagnostics' = Some(collect(document, 0, compile_error))
    /\ UNCHANGED <<document, ufVars, solveVars, instVars, compileVars, depVars,
                   topoVars, loadVars, emitVars, envVars, flatVars>>

NextDiag == Collect

SpecDiag == InitDiag /\ [][NextDiag]_vars





(***************************************************************************)
(* Observers of a context, used to state the properties: the classes a     *)
(* type mentions, the classes reachable from a class through its bound     *)
(* type or its row extension, and the fully resolved view of a type.       *)
(***************************************************************************)
TypeClass(h, p) == <<"t", find_root(h.tp, p).root>>
RowClass(h, r) == <<"r", find_root(h.rp, r).root>>

RECURSIVE Mentions(_, _)
Mentions(h, ty) ==
    CASE ty.k = "Prim" -> {}
      [] ty.k = "Var" -> {TypeClass(h, ty.point)}
      [] ty.k = "Array" -> Mentions(h, ty.elem)
      [] ty.k = "Fun" ->
           Mentions(h, ty.ret) \cup UNION {Mentions(h, ty.args[i]) : i \in DOMAIN ty.args}
      [] ty.k = "Record" -> {RowClass(h, ty.row)}
      [] ty.k = "DiscriminatedUnion" -> {RowClass(h, ty.map[t]) : t \in DOMAIN ty.map}

ClassSucc(h, c) ==
    IF c[1] = "t"
    THEN LET d == h.tp[c[2]].descriptor
         IN  IF d.k = "Bound" THEN Mentions(h, d.ty) ELSE {}
    ELSE LET d == h.rp[c[2]].descriptor
         IN  IF d.k = "RowExtend"
             THEN {RowClass(h, d.tail)}
                  \cup UNION {Mentions(h, d.fields[f]) : f \in DOMAIN d.fields}
             ELSE {}

RECURSIVE ReachFrom(_, _)
ReachFrom(h, S) ==
    LET T == S \cup UNION {ClassSucc(h, c) : c \in S}
    IN  IF T = S THEN S ELSE ReachFrom(h, T)

Classes(h) ==
    {<<"t", p>> : p \in {q \in DOMAIN h.tp : h.tp[q].kind = "Info"}}
    \cup {<<"r", p>> : p \in {q \in DOMAIN h.rp : h.rp[q].kind = "Info"}}

\* some class is bound to (or extends over) something that reaches the class
Cyclic(h) == \E c \in Classes(h) : c \in ReachFrom(h, ClassSucc(h, c))

\* ty is a finite type: nothing it reaches reaches itself
FiniteType(h, ty) ==
    \A c \in ReachFrom(h, Mentions(h, ty)) : c \notin ReachFrom(h, ClassSucc(h, c))

RECURSIVE TypeView(_, _, _)
RECURSIVE RowView(_, _, _)
TypeView(h, ty, n) ==
    IF n = 0 THEN [k |-> "Cyclic"]
    ELSE CASE ty.k = "Prim" -> ty
           [] ty.k = "Var" ->
                LET d == h.tp[TypeClass(h, ty.point)[2]].descriptor
                IN  IF d.k = "Bound" THEN TypeView(h, d.ty, n - 1)
                    ELSE [k |-> "Var", class |-> TypeClass(h, ty.point)[2]]
           [] ty.k = "Array" -> Array(TypeView(h, ty.elem, n - 1))
           [] ty.k = "Fun" ->
                Fun([i \in DOMAIN ty.args |-> TypeView(h, ty.args[i], n - 1)],
                    TypeView(h, ty.ret, n - 1))
           [] ty.k = "Record" -> [k |-> "Record", row |-> RowView(h, ty.row, n - 1)]
           [] ty.k = "DiscriminatedUnion" ->
                [k |-> "DiscriminatedUnion",
                 map |-> [t \in DOMAIN ty.map |-> RowView(h, ty.map[t], n - 1)]]

\* a row flattened: its fields (the outer extension first), its tail class
\* and the names that more than one extension of the chain carries
RowView(h, row, n) ==
    IF n = 0 THEN [fields |-> EmptyMap, tail |-> 0, dups |-> {}]
    ELSE LET d == h.rp[RowClass(h, row)[2]].descriptor
         IN  IF d.k = "RowFlex"
             THEN [fields |-> EmptyMap, tail |-> RowClass(h, row)[2], dups |-> {}]
             ELSE LET rest == RowView(h, d.tail, n - 1)
                  IN  [fields |-> [f \in DOMAIN d.fields |->
                                      TypeView(h, d.fields[f], n - 1)] @@ rest.fields,
                       tail |-> rest.tail,
                       dups |-> rest.dups \cup (DOMAIN d.fields \cap DOMAIN rest.fields)]

Last == constraints[Len(constraints)]

\* C2 (as claimed): the occurs check keeps bound types acyclic.  Unifying an
\* unbound variable with a non-variable type that mentions a variable of its
\* class ends in OccursCheck and binds nothing; and whenever solve has
\* returned Ok no class is bound to a type that reaches the class, no row
\* tail chain reaches itself and canonical_type ends on every variable.
C2_OccursCheckKeepsTypesAcyclic ==
    /\ result = "" =>
          /\ ~Cyclic(heap)
          /\ \A p \in DOMAIN heap.tp : ~canonical_type(heap, Var(p), MaxDepth).div
          /\ \A r \in DOMAIN heap.rp : ~gather_fields(heap, EmptyMap, r, MaxDepth).div
    /\ (/\ Len(constraints) > 0
        /\ ~Cyclic(prev)
        /\ Last.t1.k = "Var" /\ Last.t2.k # "Var"
        /\ get(prev.tp, Last.t1.point).descriptor.k = "Unbound"
        /\ TypeClass(prev, Last.t1.point) \in ReachFrom(prev, Mentions(prev, Last.t2)))
       => /\ result = "OccursCheck"
          /\ get(heap.tp, Last.t1.point).descriptor.k = "Unbound"

\* the last constraint unified two (finite) record types whose rows, flattened
\* in the context before it, ended in flexible tails of two different classes
\* and had different field sets
Pre1 == gather_fields(prev, EmptyMap, Last.t1.row, MaxDepth)
Pre2 == gather_fields(prev, EmptyMap, Last.t2.row, MaxDepth)
Post1 == gather_fields(heap, EmptyMap, Last.t1.row, MaxDepth)
Post2 == gather_fields(heap, EmptyMap, Last.t2.row, MaxDepth)

UnifiedOpenRows ==
    /\ Len(constraints) > 0
    /\ Last.t1.k = "Record" /\ Last.t2.k = "Record"
    /\ FiniteType(prev, Last.t1) /\ FiniteType(prev, Last.t2)
    /\ RowClass(prev, Pre1.tail) # RowClass(prev, Pre2.tail)
    /\ DOMAIN Pre1.fields # DOMAIN Pre2.fields

RowsMerged ==
    /\ ~Post1.div /\ ~Post2.div
    /\ DOMAIN Post1.fields = DOMAIN Pre1.fields \cup DOMAIN Pre2.fields
    /\ DOMAIN Post2.fields = DOMAIN Pre1.fields \cup DOMAIN Pre2.fields
    /\ RowClass(heap, Post1.tail) = RowClass(heap, Post2.tail)
    /\ \A f \in DOMAIN Post1.fields :
          TypeView(heap, Post1.fields[f], MaxDepth) = TypeView(heap, Post2.fields[f], MaxDepth)
    /\ \A f \in DOMAIN Pre1.fields :
          TypeView(heap, Post1.fields[f], MaxDepth) = TypeView(heap, Pre1.fields[f], MaxDepth)
    /\ \A f \in DOMAIN Pre2.fields :
          TypeView(heap, Post2.fields[f], MaxDepth) = TypeView(heap, Pre2.fields[f], MaxDepth)

DisjointFields == DOMAIN Pre1.fields \cap DOMAIN Pre2.fields = {}

FieldMentions(h, fields) ==
    ReachFrom(h, UNION {Mentions(h, fields[f]) : f \in DOMAIN fields})

\* no field type of one row contains the tail of the other row
NoTailInFields ==
    /\ RowClass(prev, Pre2.tail) \notin FieldMentions(prev, Pre1.fields)
    /\ RowClass(prev, Pre1.tail) \notin FieldMentions(prev, Pre2.fields)

InstBefore == TypeView(prev, inst.ty, MaxDepth)
InstAfter == TypeView(heap, inst.out, MaxDepth)

\* the names the flattened row r carries once and the row with fields g has
Once(r, g) == (DOMAIN r.fields \cap DOMAIN g) \ r.dups

\* pairs <<class of an unbound variable of the argument, what stands at the
\* same position of the result>>
RECURSIVE VarPairs(_, _)
VarPairs(a, b) ==
    CASE a.k = "Var" -> {<<a.class, b>>}
      [] a.k = "Array" /\ b.k = "Array" -> VarPairs(a.elem, b.elem)
      [] a.k = "Fun" /\ b.k = "Fun" /\ Len(a.args) = Len(b.args) ->
           VarPairs(a.ret, b.ret)
           \cup UNION {VarPairs(a.args[i], b.args[i]) : i \in DOMAIN a.args}
      [] a.k = "Record" /\ b.k = "Record" ->
           UNION {VarPairs(a.row.fields[f], b.row.fields[f]) :
                     f \in Once(a.row, b.row.fields)}
      [] a.k = "DiscriminatedUnion" /\ b.k = "DiscriminatedUnion" ->
           UNION {UNION {VarPairs(a.map[t].fields[f], b.map[t].fields[f]) :
                            f \in Once(a.map[t], b.map[t].fields)} :
                     t \in DOMAIN a.map \cap DOMAIN b.map}
      [] OTHER -> {}

\* the result has the shape of the argument: same constructors, equal
\* primitives, a variable where the argument has an unbound variable
RECURSIVE CopiedStructurally(_, _)
CopiedStructurally(a, b) ==
    CASE a.k = "Var" -> b.k = "Var"
      [] a.k = "Prim" -> b = a
      [] a.k = "Array" -> b.k = "Array" /\ CopiedStructurally(a.elem, b.elem)
      [] a.k = "Fun" ->
           /\ b.k = "Fun" /\ Len(a.args) = Len(b.args)
           /\ CopiedStructurally(a.ret, b.ret)
           /\ \A i \in DOMAIN a.args : CopiedStructurally(a.args[i], b.args[i])
      [] a.k = "Record" ->
           /\ b.k = "Record"
           /\ \A f \in Once(a.row, b.row.fields) :
                 CopiedStructurally(a.row.fields[f], b.row.fields[f])
      [] a.k = "DiscriminatedUnion" ->
           /\ b.k = "DiscriminatedUnion" /\ DOMAIN a.map = DOMAIN b.map
           /\ \A t \in DOMAIN a.map :
                 \A f \in Once(a.map[t], b.map[t].fields) :
                    CopiedStructurally(a.map[t].fields[f], b.map[t].fields[f])
      [] OTHER -> FALSE

\* a class reachable from the result existed before the call
OriginalClass(c) == c[2] <= (IF c[1] = "t" THEN Len(prev.tp) ELSE Len(prev.rp))

\* pairs <<a row of the argument, flattened; the row point at the same
\* position of the result>>
RECURSIVE InstRows(_, _)
InstRows(a, o) ==
    LET under(r, q) ==
            LET d == get_row(heap, q).desc
            IN  {<<r, q>>}
                \cup IF d.k = "RowExtend"
                     THEN UNION {InstRows(r.fields[f], d.fields[f]) :
                                    f \in Once(r, d.fields)}
                     ELSE {}
    IN  CASE a.k = "Array" /\ o.k = "Array" -> InstRows(a.elem, o.elem)
          [] a.k = "Fun" /\ o.k = "Fun" /\ Len(a.args) = Len(o.args) ->
               InstRows(a.ret, o.ret)
               \cup UNION {InstRows(a.args[i], o.args[i]) : i \in DOMAIN a.args}
          [] a.k = "Record" /\ o.k = "Record" -> under(a.row, o.row)
          [] a.k = "DiscriminatedUnion" /\ o.k = "DiscriminatedUnion" ->
               UNION {under(a.map[t], o.map[t]) : t \in DOMAIN a.map \cap DOMAIN o.map}
          [] OTHER -> {}

\* the row q of the result is one RowExtend with every field name of the
\* chain r, over a RowFlex tail that the call created
SingleExtension(r, q) ==
    LET d == get_row(heap, q).desc
    IN  /\ d.k = "RowExtend"
        /\ DOMAIN r.fields \subseteq DOMAIN d.fields
        /\ get_row(heap, d.tail).desc.k = "RowFlex"
        /\ ~OriginalClass(RowClass(heap, d.tail))

\* C9: instantiating a (finite) type gives, for every RowExtend chain it
\* reaches - the row of a record and each branch row of a discriminated
\* union - a single RowExtend with every field name of the chain over a
\* fresh RowFlex tail; a bare RowFlex row is replaced by a fresh row.
C9_InstantiateKeepsEveryFieldOfEveryRow ==
    (inst.done /\ FiniteType(prev, inst.ty)) =>
        /\ ~inst.div
        /\ \A pr \in InstRows(InstBefore, inst.out) :
              /\ ~OriginalClass(RowClass(heap, pr[2]))
              /\ DOMAIN pr[1].fields # {} => SingleExtension(pr[1], pr[2])

\* C10: within one instantiate call the same unbound class is replaced by
\* the same fresh point and different classes by different fresh points, no
\* class of the original is reachable from the result, and primitives and
\* bound variables are copied structurally.
C10_InstantiateMapsClassesToFreshPoints ==
    (inst.done /\ FiniteType(prev, inst.ty)) =>
        /\ ~inst.div
        /\ CopiedStructurally(InstBefore, InstAfter)
        /\ \A x \in VarPairs(InstBefore, InstAfter) :
              /\ x[2].k = "Var"
              /\ \A y \in VarPairs(InstBefore, InstAfter) :
                    (x[1] = y[1]) <=> (x[2] = y[2])
        /\ \A c \in ReachFrom(heap, Mentions(heap, inst.out)) : ~OriginalClass(c)

\* a function type with the same unbound class twice, a second class, and a
\* variable bound to number has been instantiated
C10_Witness ==
    /\ inst.done /\ ~inst.div
    /\ inst.ty = Fun(<<Var(1), Var(2), Var(3)>>, Var(1))
    /\ InstBefore.args[3] = Prim("number")
    /\ InstBefore.args[1].k = "Var" /\ InstBefore.args[2].k = "Var"
    /\ InstBefore.args[1] # InstBefore.args[2]
    /\ InstAfter.args[1] = InstAfter.ret

(***************************************************************************)
(* Compile: what the claims speak of                                       *)
(***************************************************************************)
CompileHeap == type_env.infer_ctx

\* the view compile_view has lowered and solve_view has not yet solved
Compiling == error = "" /\ pending.some
Current == prog[Len(compiled_views) + 1]

\* the views compiled and solved so far, by position in prog
Solved == 1..Len(compiled_views)

\* the saved scheme of a view as the heap h shows it
SchemeView(h, scheme) == [x \in DOMAIN scheme |-> TypeView(h, scheme[x], MaxDepth)]

\* the classes the types of a saved scheme reach
SchemeReach(h, scheme) ==
    ReachFrom(h, UNION {Mentions(h, scheme[x]) : x \in DOMAIN scheme})

\* the points a type names, each as itself (not as its class)
RECURSIVE PointsOf(_)
PointsOf(ty) ==
    CASE ty.k = "Prim" -> {}
      [] ty.k = "Var" -> {<<"t", ty.point>>}
      [] ty.k = "Array" -> PointsOf(ty.elem)
      [] ty.k = "Fun" -> PointsOf(ty.ret) \cup UNION {PointsOf(ty.args[i]) : i \in DOMAIN ty.args}
      [] ty.k = "Record" -> {<<"r", ty.row>>}
      [] ty.k = "DiscriminatedUnion" -> {<<"r", ty.map[t]>> : t \in DOMAIN ty.map}

\* the identifiers of an expression
RECURSIVE Idents(_)
Idents(e) ==
    CASE e.k = "Variable" -> {e.name}
      [] e.k = "Number" -> {}
      [] e.k = "StringTemplate" ->
           UNION {IF e.segments[i].k = "Interpolation" THEN Idents(e.segments[i].expr)
                  ELSE {} : i \in DOMAIN e.segments}
      [] e.k = "Field" -> Idents(e.rec)
      [] e.k = "FunctionCall" ->
           Idents(e.callee) \cup UNION {Idents(e.args[i]) : i \in DOMAIN e.args}
      [] e.k = "Pipe" -> Idents(e.left) \cup Idents(e.right)

AttrIdents(attrs) ==
    UNION {IF attrs[i].value.k = "Expr" THEN Idents(attrs[i].value.expr)
           ELSE Idents(StringTemplate(attrs[i].value.segments)) : i \in DOMAIN attrs}

LiteralOf(attrs, name) == find_literal_attr(attrs, name).s

\* the identifiers used free in a node: a <for> binds its variable and a
\* <case> its name in the one child they have, and nowhere else
RECURSIVE FreeIdents(_)
FreeIdents(node) ==
    CASE node.k = "Text" -> {}
      [] node.k = "Expr" -> Idents(node.expr)
      [] node.k = "ComponentCall" ->
           AttrIdents(node.attrs)
           \cup UNION {FreeIdents(node.children[i]) : i \in DOMAIN node.children}
      [] node.k = "Element" ->
           IF node.name = "for"
           THEN AttrIdents(node.attrs)
                \cup (FreeIdents(node.children[1]) \ {LiteralOf(node.attrs, "as")})
           ELSE IF node.name = "case"
           THEN FreeIdents(node.children[1]) \ {LiteralOf(node.attrs, "name")}
           ELSE AttrIdents(node.attrs)
                \cup UNION {FreeIdents(node.children[i]) : i \in DOMAIN node.children}

\* every expression of a node, and every expression inside an expression
RECURSIVE SubExprs(_)
SubExprs(e) ==
    {e} \cup
    CASE e.k = "Variable" -> {}
      [] e.k = "Number" -> {}
      [] e.k = "StringTemplate" ->
           UNION {IF e.segments[i].k = "Interpolation" THEN SubExprs(e.segments[i].expr)
                  ELSE {} : i \in DOMAIN e.segments}
      [] e.k = "Field" -> SubExprs(e.rec)
      [] e.k = "FunctionCall" ->
           SubExprs(e.callee) \cup UNION {SubExprs(e.args[i]) : i \in DOMAIN e.args}
      [] e.k = "Pipe" -> SubExprs(e.left) \cup SubExprs(e.right)

RECURSIVE NodeExprs(_)
NodeExprs(node) ==
    CASE node.k = "Text" -> {}
      [] node.k = "Expr" -> SubExprs(node.expr)
      [] OTHER ->
           UNION {IF node.attrs[i].value.k = "Expr" THEN SubExprs(node.attrs[i].value.expr)
                  ELSE SubExprs(StringTemplate(node.attrs[i].value.segments))
                  : i \in DOMAIN node.attrs}
           \cup UNION {NodeExprs(node.children[i]) : i \in DOMAIN node.children}

\* the identifiers a node hands to a function
Applied(node) ==
    UNION {Idents(e) : e \in {s \in NodeExprs(node) : s.k \in {"FunctionCall", "Pipe"}}}

\* the fields a node reads through the name a
AliasFields(node, a) ==
    {e.field_name : e \in {s \in NodeExprs(node) : s.k = "Field" /\ s.rec = Variable(a)}}

\* the name a stands somewhere in the expression other than before a field
RECURSIVE Whole(_, _)
Whole(e, a) ==
    CASE e.k = "Variable" -> e.name = a
      [] e.k = "Number" -> FALSE
      [] e.k = "StringTemplate" ->
           \E i \in DOMAIN e.segments :
              e.segments[i].k = "Interpolation" /\ Whole(e.segments[i].expr, a)
      [] e.k = "Field" -> e.rec # Variable(a) /\ Whole(e.rec, a)
      [] e.k = "FunctionCall" ->
           Whole(e.callee, a) \/ \E i \in DOMAIN e.args : Whole(e.args[i], a)
      [] e.k = "Pipe" -> Whole(e.left, a) \/ Whole(e.right, a)

RECURSIVE UsedWhole(_, _)
UsedWhole(node, a) ==
    CASE node.k = "Text" -> FALSE
      [] node.k = "Expr" -> Whole(node.expr, a)
      [] OTHER ->
           \/ \E i \in DOMAIN node.attrs :
                 IF node.attrs[i].value.k = "Expr" THEN Whole(node.attrs[i].value.expr, a)
                 ELSE Whole(StringTemplate(node.attrs[i].value.segments), a)
           \/ \E i \in DOMAIN node.children : UsedWhole(node.children[i], a)

\* the <switch> elements of a node
RECURSIVE Switches(_)
Switches(node) ==
    IF node.k \notin {"Element", "ComponentCall"} THEN {}
    ELSE (IF node.k = "Element" /\ node.name = "switch" THEN {node} ELSE {})
         \cup UNION {Switches(node.children[i]) : i \in DOMAIN node.children}

CaseNames(sw) == {LiteralOf(sw.children[i].attrs, "name") : i \in DOMAIN sw.children}
CaseBody(sw, name) ==
    sw.children[CHOOSE i \in DOMAIN sw.children :
                   LiteralOf(sw.children[i].attrs, "name") = name].children[1]

\* the calls the trace of view v holds that went through
Calls(v) == {i \in DOMAIN trace[v].calls : trace[v].calls[i].err = ""}

\* a type with no variable and no row in it
RECURSIVE Ground(_)
Ground(tv) ==
    CASE tv.k = "Prim" -> TRUE
      [] tv.k = "Array" -> Ground(tv.elem)
      [] tv.k = "Fun" -> Ground(tv.ret) /\ \A i \in DOMAIN tv.args : Ground(tv.args[i])
      [] OTHER -> FALSE

(***************************************************************************)
(* C4: a component call never changes the saved scheme of the callee, and  *)
(* call sites do not constrain each other.  (1) No step changes what the   *)
(* saved scheme of a solved view shows.  (2) The expected types of the     *)
(* constraints of a call name only points made from the call's             *)
(* instantiation on, no constraint of the caller reaches a class of a      *)
(* saved scheme, and the schemes of two solved views share no class.       *)
(* The expected types of two calls reach no class in common.  (3) Two      *)
(* variables a solved caller passes whole to the same attribute at two     *)
(* calls of one view, each passed once and handed to no function, reach no *)
(* class in common when the caller applies no function with a type         *)
(* variable.                                                               *)
(***************************************************************************)
SchemeKept ==
    \A v \in Solved :
        SchemeView(type_env.infer_ctx, type_env.views[prog[v].name])
        = SchemeView(type_env'.infer_ctx, type_env'.views[prog[v].name])

\* the classes the expected types of the constraints of call i of the view
\* being compiled reach
CallReach(i) ==
    LET e == trace[Len(trace)].calls[i]
    IN  ReachFrom(CompileHeap,
                  UNION {Mentions(CompileHeap, type_env.constraints[j].t2)
                         : j \in (e.constraints0 + 1)..e.constraints1})

CallsUseCopies ==
    /\ Compiling =>
          \A i \in Calls(Len(trace)) :
             LET e == trace[Len(trace)].calls[i]
             IN  /\ \A j \in (e.constraints0 + 1)..e.constraints1 :
                       \A p \in PointsOf(type_env.constraints[j].t2) :
                          p[2] > (IF p[1] = "t" THEN e.tp0 ELSE e.rp0)
                 /\ \A k \in Calls(Len(trace)) \ {i} : CallReach(i) \cap CallReach(k) = {}
    /\ \A v \in Solved : \A j \in DOMAIN type_env.constraints :
          ReachFrom(CompileHeap, Mentions(CompileHeap, type_env.constraints[j].t1)
                                 \cup Mentions(CompileHeap, type_env.constraints[j].t2))
          \cap SchemeReach(CompileHeap, type_env.views[prog[v].name]) = {}
    /\ \A v, w \in Solved :
          v # w => SchemeReach(CompileHeap, type_env.views[prog[v].name])
                   \cap SchemeReach(CompileHeap, type_env.views[prog[w].name]) = {}

\* the calls of view v that pass the variable y whole, with the attribute
PassedAt(v, y) ==
    UNION {{<<i, x>> : x \in {n \in DOMAIN trace[v].calls[i].provided :
                                 trace[v].calls[i].provided[n] = Variable(y)}}
           : i \in Calls(v)}

\* the built-in functions without a type variable
Monomorphic ==
    {n \in DOMAIN BUILTINS :
        /\ BUILTINS[n].ret.k = "Prim"
        /\ \A i \in DOMAIN BUILTINS[n].args : BUILTINS[n].args[i].k = "Prim"}

\* every function the node applies is one of these
AppliesOnlyMonomorphic(node) ==
    \A e \in NodeExprs(node) :
        /\ e.k # "Pipe"
        /\ e.k = "FunctionCall" => e.callee.k = "Variable" /\ e.callee.name \in Monomorphic

SitesApart(v) ==
    LET scheme == type_env.views[prog[v].name]
    IN  \A y, z \in DOMAIN scheme \ Applied(prog[v].node) :
           \A s \in PassedAt(v, y), t \in PassedAt(v, z) :
              ( /\ y # z
                /\ s[1] # t[1] /\ s[2] = t[2]
                /\ trace[v].calls[s[1]].target = trace[v].calls[t[1]].target
                /\ PassedAt(v, y) = {s} /\ PassedAt(v, z) = {t}
                /\ AppliesOnlyMonomorphic(prog[v].node) )
              => ReachFrom(CompileHeap, Mentions(CompileHeap, scheme[y]))
                 \cap ReachFrom(CompileHeap, Mentions(CompileHeap, scheme[z])) = {}

C4_CallsLeaveSchemesAndEachOtherAlone ==
    /\ [][SchemeKept]_vars
    /\ [](CallsUseCopies /\ \A v \in Solved : SitesApart(v))

\* a caller solved after two calls of B whose arguments got different types
C4_Witness ==
    /\ error = "" /\ Len(compiled_views) = 2
    /\ \E i, j \in Calls(2) :
          /\ i # j
          /\ trace[2].calls[i].provided = ("x" :> Variable("y"))
          /\ trace[2].calls[j].provided = ("x" :> Variable("z"))
    /\ TypeView(CompileHeap, type_env.views["A"]["y"], MaxDepth) = Array(Prim("string"))
    /\ TypeView(CompileHeap, type_env.views["A"]["z"], MaxDepth) = Array(Prim("number"))
    /\ TypeView(CompileHeap, type_env.views["B"]["x"], MaxDepth).k = "Array"
    /\ TypeView(CompileHeap, type_env.views["B"]["x"], MaxDepth).elem.k = "Var"

(***************************************************************************)
(* C5: at a component call the expression of an attribute is inferred      *)
(* against the instantiated type of the callee's input of the same name:   *)
(* when a solved view passes a variable of its own as attribute x and the  *)
(* callee's x has a type without variables and rows (string, say), the     *)
(* variable has that type in the caller's input.                           *)
(***************************************************************************)
C5_CalleeFieldTypeFlowsToCaller ==
    \A v \in Solved : \A i \in Calls(v) :
        LET e == trace[v].calls[i]
            callee == type_env.views[e.target]
            caller == type_env.views[prog[v].name]
        IN  \A x \in DOMAIN e.provided :
               ( /\ e.provided[x].k = "Variable"
                 /\ e.provided[x].name \notin e.scoped
                 /\ Ground(TypeView(CompileHeap, callee[x], MaxDepth)) )
               => /\ e.provided[x].name \in DOMAIN caller
                  /\ TypeView(CompileHeap, caller[e.provided[x].name], MaxDepth)
                     = TypeView(CompileHeap, callee[x], MaxDepth)

\* A passes {y} as x of B, B's x is string, A is solved and its y is string
C5_Witness ==
    /\ error = "" /\ Len(compiled_views) = 2
    /\ \E i \in Calls(2) : trace[2].calls[i].provided = ("x" :> Variable("y"))
    /\ TypeView(CompileHeap, type_env.views["B"]["x"], MaxDepth) = Prim("string")
    /\ TypeView(CompileHeap, type_env.views["A"]["y"], MaxDepth) = Prim("string")
    /\ compiled_views[2].ts_type = Object("y" :> SimpleType("string"))

(***************************************************************************)
(* C6: compile_component_call on a view that exists returns an error       *)
(* whenever the names given differ from the keys of the callee's input:    *)
(* "missing required attributes" when a key is absent, else "unexpected    *)
(* attributes"; it then has added no constraint and recorded no            *)
(* ComponentCallInfo, and compile returns that error.                      *)
(***************************************************************************)
C6_AttributeNamesMustMatch ==
    \A v \in DOMAIN trace : \A i \in DOMAIN trace[v].calls :
        LET e == trace[v].calls[i]
        IN  (e.found /\ DOMAIN e.provided # e.required) =>
               /\ e.err = IF e.required \ DOMAIN e.provided # {}
                          THEN "MissingRequiredAttributes"
                          ELSE "UnexpectedAttributes"
               /\ e.constraints1 = e.constraints0
               /\ e.calls1 = e.calls0
               /\ e.tp1 = e.tp0 /\ e.rp1 = e.rp0
               /\ error = e.err
               /\ ~pending.some

\* a call with a key missing and a name too many: the missing key is reported
C6_Witness ==
    \E v \in DOMAIN trace : \E i \in DOMAIN trace[v].calls :
        LET e == trace[v].calls[i]
        IN  /\ e.found
            /\ e.required \ DOMAIN e.provided # {}
            /\ DOMAIN e.provided \ e.required # {}
            /\ error = "MissingRequiredAttributes"
            /\ e.constraints0 > 0

(***************************************************************************)
(* C7: after a view is compiled the keys of Env.globals are exactly the    *)
(* identifiers used free in its body, the built-in names left out.         *)
(***************************************************************************)
C7_InputIsTheFreeIdentifiers ==
    Compiling =>
        DOMAIN globals(type_env.env) = FreeIdents(Current.node) \ DOMAIN BUILTINS

(***************************************************************************)
(* C8: in a solved view, for a <switch on={k}> over an input k with the    *)
(* cases c1..cn, k is a discriminated union with exactly the tags c1..cn;  *)
(* a field read through the alias ci in the body of case ci is in branch   *)
(* ci, with the type the alias has for it, and in no branch cj whose body  *)
(* does not read it and uses cj only to read fields; the field `type` of   *)
(* an alias has the literal type of its case name.                         *)
(***************************************************************************)
AliasView(v, name) ==
    LET e == trace[v].cases[CHOOSE i \in DOMAIN trace[v].cases :
                               trace[v].cases[i].name = name]
    IN  TypeView(CompileHeap, Var(e.point), MaxDepth)

C8_SwitchInfersDiscriminatedUnion ==
    \A v \in Solved : \A sw \in Switches(prog[v].node) :
        LET on == find_binding_attr(sw.attrs, "on").expr
            scheme == type_env.views[prog[v].name]
        IN  (on.k = "Variable" /\ on.name \in DOMAIN scheme) =>
               LET k == TypeView(CompileHeap, scheme[on.name], MaxDepth)
               IN  /\ k.k = "DiscriminatedUnion"
                   /\ DOMAIN k.map = CaseNames(sw)
                   /\ \A ci \in CaseNames(sw) :
                         /\ AliasView(v, ci).k = "Record"
                         /\ AliasView(v, ci).row.fields["type"]
                            = Prim("\"" \o ci \o "\"")
                         /\ \A f \in AliasFields(CaseBody(sw, ci), ci) \ {"type"} :
                               /\ f \in DOMAIN k.map[ci].fields
                               /\ k.map[ci].fields[f] = AliasView(v, ci).row.fields[f]
                               /\ \A cj \in CaseNames(sw) \ {ci} :
                                     ( /\ f \notin AliasFields(CaseBody(sw, cj), cj)
                                       /\ ~UsedWhole(CaseBody(sw, cj), cj) )
                                     => f \notin DOMAIN k.map[cj].fields

\* x is solved to a union of a (with b and c) and b (with c alone)
C8_Witness ==
    /\ error = "" /\ Len(compiled_views) >= 1
    /\ \E sw \in Switches(prog[1].node) :
          /\ CaseNames(sw) = {"a", "b"}
          /\ AliasFields(CaseBody(sw, "a"), "a") = {"b", "c"}
          /\ AliasFields(CaseBody(sw, "b"), "b") = {"c"}
    /\ LET k == TypeView(CompileHeap, type_env.views["B"]["x"], MaxDepth)
       IN  /\ k.k = "DiscriminatedUnion"
           /\ DOMAIN k.map["a"].fields = {"b", "c"}
           /\ DOMAIN k.map["b"].fields = {"c"}
           /\ k.map["a"].fields["b"] = Prim("string")

(***************************************************************************)
(* C11: expr_dependencies returns the set the rules give: a variable gives *)
(* its name, a field chain over a variable its dotted path, a call what    *)
(* its callee and each of its arguments give, a pipe what its two sides    *)
(* give, a string template what its interpolations give, a number nothing; *)
(* field names applied to anything but a chain over a variable are         *)
(* discarded, and a path that is a built-in name is left out.              *)
(***************************************************************************)
\* the names of a chain x.f1...fn over a variable, << >> for anything else
RECURSIVE ChainOf(_)
ChainOf(e) ==
    IF e.k = "Variable" THEN <<e.name>>
    ELSE IF e.k = "Field" /\ ChainOf(e.rec) # << >>
         THEN Append(ChainOf(e.rec), e.field_name)
         ELSE << >>

RECURSIVE Dotted(_)
Dotted(chain) ==
    IF Len(chain) = 1 THEN chain[1] ELSE chain[1] \o "." \o Dotted(Tail(chain))

RECURSIVE RuleDeps(_)
RuleDeps(e) ==
    IF ChainOf(e) # << >> THEN {Dotted(ChainOf(e))} \ DOMAIN BUILTINS
    ELSE IF e.k = "Number" THEN {}
    ELSE IF e.k = "Field" THEN RuleDeps(e.rec)
    ELSE IF e.k = "FunctionCall"
    THEN RuleDeps(e.callee) \cup UNION {RuleDeps(e.args[i]) : i \in DOMAIN e.args}
    ELSE IF e.k = "Pipe" THEN RuleDeps(e.left) \cup RuleDeps(e.right)
    ELSE UNION {IF e.segments[i].k = "Interpolation"
                THEN RuleDeps(e.segments[i].expr) ELSE {}
                : i \in DOMAIN e.segments}

C11_DependenciesFollowTheRules ==
    dependencies # {"?"} => dependencies = RuleDeps(expr_in)

\* a.x().y, fields before and after a call: only a.x is a dependency
C11_Witness ==
    /\ expr_in = Field(FunctionCall(Field(Variable("a"), "x"), << >>), "y")
    /\ dependencies = {"a.x"}

(***************************************************************************)
(* Observers of a dependency map: its edges, what a node reaches, cycles.  *)
(***************************************************************************)
EdgesOf(g, v) == IF v \in DOMAIN g THEN g[v] ELSE {}

RECURSIVE ReachedIn(_, _, _)
ReachedIn(g, S, n) ==
    IF n = 0 THEN S
    ELSE ReachedIn(g, S \cup UNION {EdgesOf(g, v) : v \in S}, n - 1)

\* the nodes v reaches in one step or more
DependsOn(g, v) == ReachedIn(g, EdgesOf(g, v), Cardinality(DOMAIN g) + 1)

HasCycle(g) == \E v \in DOMAIN g : v \in DependsOn(g, v)

PlaceOf(order, v) == CHOOSE i \in DOMAIN order : order[i] = v

(***************************************************************************)
(* C12: on a dependency map without a cycle topo_sort returns an order in  *)
(* which every view stands exactly once, no node stands twice, and every   *)
(* view stands after each view it references.                              *)
(***************************************************************************)
C12_OrderPutsReferencesFirst ==
    (sorted.some /\ ~HasCycle(graph)) =>
        /\ sorted.v.ok
        /\ \A v \in DOMAIN graph :
              Cardinality({i \in DOMAIN sorted.v.order : sorted.v.order[i] = v}) = 1
        /\ \A i, j \in DOMAIN sorted.v.order :
              sorted.v.order[i] = sorted.v.order[j] => i = j
        /\ \A v \in DOMAIN graph : \A w \in graph[v] :
              PlaceOf(sorted.v.order, w) < PlaceOf(sorted.v.order, v)

\* C references B and B references A: the order is A, B, C
C12_Witness ==
    /\ sorted.some
    /\ graph = ("A" :> {} @@ "B" :> {"A"} @@ "C" :> {"B"})
    /\ sorted.v.ok
    /\ sorted.v.order = <<"A", "B", "C">>

(***************************************************************************)
(* C13: topo_sort returns Err exactly when the map has a cycle, a view     *)
(* that references itself included; the list of the Cycle starts and ends  *)
(* with the same view, each node of it references the next, and the        *)
(* loader's error has the list in its message and a label for each of its  *)
(* views.                                                                  *)
(***************************************************************************)
RECURSIVE Arrows(_, _)
Arrows(nodes, i) ==
    IF i = 1 THEN nodes[1] ELSE Arrows(nodes, i - 1) \o " -> " \o nodes[i]

C13_CycleIsReported ==
    sorted.some =>
        /\ ~sorted.v.ok <=> HasCycle(graph)
        /\ ~sorted.v.ok =>
             LET nodes == sorted.v.nodes
                 e == sorted.v.errors[1]
             IN  /\ Len(nodes) >= 2
                 /\ nodes[1] = nodes[Len(nodes)]
                 /\ \A i \in 1..(Len(nodes) - 1) : nodes[i + 1] \in EdgesOf(graph, nodes[i])
                 /\ Len(sorted.v.errors) = 1
                 /\ e.message = "Circular component dependency: " \o Arrows(nodes, Len(nodes))
                 /\ \A i \in DOMAIN nodes :
                       \E l \in DOMAIN e.labels :
                          /\ e.labels[l].span = NameSpan(nodes[i])
                          /\ e.labels[l].text = nodes[i] \o " participates in the cycle."

\* A, B, C stand in a ring, found from A
C13_Witness ==
    /\ sorted.some
    /\ graph = ("A" :> {"B"} @@ "B" :> {"C"} @@ "C" :> {"A"})
    /\ ~sorted.v.ok
    /\ sorted.v.nodes = <<"A", "B", "C", "A">>
    /\ sorted.v.errors[1].message = "Circular component dependency: A -> B -> C -> A"

(***************************************************************************)
(* C14: the order is the topological order with ties broken by name: of    *)
(* two views of which neither depends on the other, the one with the       *)
(* smaller name stands first.                                              *)
(***************************************************************************)
C14_TiesBrokenByName ==
    (sorted.some /\ sorted.v.ok) =>
        \A v, w \in DOMAIN graph :
           ( /\ position(NameOrder, v) < position(NameOrder, w)
             /\ v \notin DependsOn(graph, w)
             /\ w \notin DependsOn(graph, v) )
           => PlaceOf(sorted.v.order, v) < PlaceOf(sorted.v.order, w)

(***************************************************************************)
(* Observers of a file system: what each file requires, read from its      *)
(* nodes, and the files the entry reaches.                                 *)
(***************************************************************************)
RequiredBy(fs, path) ==
    IF path \notin DOMAIN fs THEN {}
    ELSE {normalize_path(resolve_required_path(path, LiteralOf(fs[path][i].attrs, "src")))
          : i \in {j \in DOMAIN fs[path] : fs[path][j].name = "require"}}

RequireGraph(fs) ==
    [path \in {PathA, PathB, PathC} |-> RequiredBy(fs, path)]

ReachedFiles(fs) ==
    {normalize_path(EntryPath)} \cup DependsOn(RequireGraph(fs), normalize_path(EntryPath))

RequireCycle(fs) ==
    \E path \in ReachedFiles(fs) : path \in DependsOn(RequireGraph(fs), path)

AllResolve(fs) == ReachedFiles(fs) \subseteq DOMAIN fs

\* the lists of two to four of the files
FileLists == UNION {[1..n -> {PathA, PathB, PathC}] : n \in 2..4}

\* the error names the list as a <require> cycle
CircularRequire(e, cycle) ==
    e.message = "Circular <require> dependency detected: "
                    \o Arrows([i \in DOMAIN cycle |-> display(cycle[i])], Len(cycle))

\* the views the loaded modules define: <<path, place, name, name_span>>
DefinedViews ==
    UNION {{<<path, i, loaded.v.state.modules[path].views[i].name,
              loaded.v.state.modules[path].views[i].name_span>>
            : i \in DOMAIN loaded.v.state.modules[path].views}
           : path \in DOMAIN loaded.v.state.modules}

Visited == loaded.some /\ loaded.v.state.errors = << >>

(***************************************************************************)
(* C15: when every file the entry reaches is there, load_ordered_views     *)
(* fails with a "Circular <require> dependency" error exactly when the     *)
(* <require> graph reached from the entry has a cycle; the message lists a *)
(* cycle of that graph joined by " -> ", beginning and ending with the     *)
(* same path; without a cycle every reached file is loaded, once.          *)
(***************************************************************************)
C15_RequireCycleIsReported ==
    (loaded.some /\ AllResolve(files)) =>
        /\ RequireCycle(files) <=>
              /\ ~loaded.v.ok
              /\ \E cycle \in FileLists : CircularRequire(loaded.v.errors[1], cycle)
        /\ RequireCycle(files) =>
              /\ Len(loaded.v.errors) = 1
              /\ \E cycle \in FileLists :
                    /\ CircularRequire(loaded.v.errors[1], cycle)
                    /\ cycle[1] = cycle[Len(cycle)]
                    /\ \A i \in 1..(Len(cycle) - 1) :
                          cycle[i + 1] \in RequiredBy(files, cycle[i])
        /\ ~RequireCycle(files) =>
              /\ Visited
              /\ DOMAIN loaded.v.state.modules = ReachedFiles(files)
              /\ loaded.v.state.sources.next_source_id = Cardinality(ReachedFiles(files))

\* a.vg requires b.vg and b.vg requires a.vg
C15_Witness ==
    /\ loaded.some
    /\ RequiredBy(files, PathA) = {PathB}
    /\ RequiredBy(files, PathB) = {PathA}
    /\ ~loaded.v.ok
    /\ loaded.v.errors[1].message
         = "Circular <require> dependency detected: a.vg -> b.vg -> a.vg"

\* a.vg requires b.vg and sub/c.vg, b.vg requires sub/c.vg: all three are loaded
C15_DiamondWitness ==
    /\ loaded.some
    /\ RequiredBy(files, PathA) = {PathB, PathC}
    /\ RequiredBy(files, PathB) = {PathC}
    /\ RequiredBy(files, PathC) = {}
    /\ loaded.v.ok
    /\ DOMAIN loaded.v.state.modules = {PathA, PathB, PathC}

(***************************************************************************)
(* C16: when two of the views of the loaded modules have the same name,    *)
(* in one file or in two, load_ordered_views returns no order but exactly  *)
(* one error, whose labels hold the name spans of two definitions of one   *)
(* name.                                                                   *)
(***************************************************************************)
C16_DuplicateViewIsReported ==
    (Visited /\ \E d1, d2 \in DefinedViews : d1 # d2 /\ d1[3] = d2[3]) =>
        /\ ~loaded.v.ok
        /\ Len(loaded.v.errors) = 1
        /\ \E d1, d2 \in DefinedViews :
              /\ d1 # d2 /\ d1[3] = d2[3]
              /\ {d1[4], d2[4]} = {loaded.v.errors[1].labels[l].span
                                   : l \in DOMAIN loaded.v.errors[1].labels}

\* view A is defined in a.vg and in b.vg
C16_Witness ==
    /\ Visited
    /\ \E d1, d2 \in DefinedViews :
          d1[1] = PathA /\ d2[1] = PathB /\ d1[3] = "A" /\ d2[3] = "A"
    /\ ~loaded.v.ok
    /\ Len(loaded.v.errors[1].labels) = 2

(***************************************************************************)
(* C17: load_ordered_views succeeds only if every component a loaded view  *)
(* references is defined by a loaded module whose file is the referencing  *)
(* file or one it requires itself; when all views are defined once, with   *)
(* no cycle, a reference to a view of a file reached only through other    *)
(* files is rejected with the "does not <require> it directly" error.      *)
(***************************************************************************)
\* the references of the loaded views: <<path, name>>
References ==
    UNION {UNION {{<<path, loaded.v.state.modules[path].views[i].component_refs[c].name>>
                   : c \in DOMAIN loaded.v.state.modules[path].views[i].component_refs}
                  : i \in DOMAIN loaded.v.state.modules[path].views}
           : path \in DOMAIN loaded.v.state.modules}

Direct(ref) ==
    \E d \in DefinedViews :
        d[3] = ref[2] /\ (d[1] = ref[1] \/ d[1] \in RequiredBy(files, ref[1]))

Indirect(ref) ==
    /\ ~Direct(ref)
    /\ \E d \in DefinedViews : d[3] = ref[2]

NotDirectError(e, ref) ==
    \E d \in DefinedViews :
        /\ d[3] = ref[2]
        /\ e.message = "Component '" \o ref[2] \o "' is defined in '" \o display(d[1])
                           \o "', but this template does not <require> it directly."

C17_ComponentsAreRequiredDirectly ==
    Visited =>
        /\ loaded.v.ok => \A ref \in References : Direct(ref)
        /\ ( /\ \A d1, d2 \in DefinedViews : d1[3] = d2[3] => d1 = d2
             /\ \A ref \in References : \E d \in DefinedViews : d[3] = ref[2]
             /\ \E ref \in References : Indirect(ref) )
           => /\ ~loaded.v.ok
              /\ Len(loaded.v.errors) = 1
              /\ \E ref \in References :
                    Indirect(ref) /\ NotDirectError(loaded.v.errors[1], ref)

\* a.vg requires b.vg, b.vg requires sub/c.vg, and view A of a.vg uses C
C17_Witness ==
    /\ Visited
    /\ RequiredBy(files, PathA) = {PathB}
    /\ RequiredBy(files, PathB) = {PathC}
    /\ <<PathA, "C">> \in References
    /\ \E d \in DefinedViews : d[1] = PathC /\ d[3] = "C"
    /\ ~loaded.v.ok
    /\ loaded.v.errors[1].message
         = "Component 'C' is defined in 'sub/c.vg', but this template does not <require> it directly."

(***************************************************************************)
(* The update block render emits.  A group is an "if" line with the        *)
(* update lines that follow it up to its closing line.                     *)
(***************************************************************************)
DependencySet(updater) ==
    {updater.dependencies[i] : i \in DOMAIN updater.dependencies}

\* the "if" line that opens the group of the update line at j
GroupOfLine(lines, j) ==
    CHOOSE i \in 1..j : /\ lines[i].k = "if"
                        /\ \A m \in (i + 1)..j : lines[m].k = "update"

\* the update lines that print the n-th updater of the view
LinesOf(lines, updaters, n) ==
    {j \in DOMAIN lines : lines[j].k = "update" /\ lines[j].updater = updaters[n]}

\* the comparisons of the elements of a set, each once, joined by " || "
Disjunction(elems) ==
    or_join(SelectSeq([i \in DOMAIN DepOrder |-> comparison(DepOrder[i])],
                      LAMBDA text : \E d \in elems : text = comparison(d)))

EveryUpdaterInOneGroup(lines, updaters) ==
    \A n \in DOMAIN updaters : Cardinality(LinesOf(lines, updaters, n)) = 1

GroupedByDependencySet(lines, updaters) ==
    \A m, n \in DOMAIN updaters :
       \A i \in LinesOf(lines, updaters, m), j \in LinesOf(lines, updaters, n) :
          GroupOfLine(lines, i) = GroupOfLine(lines, j)
             <=> DependencySet(updaters[m]) = DependencySet(updaters[n])

GuardsCompareTheSet(lines, updaters) ==
    \A n \in DOMAIN updaters :
       \A j \in LinesOf(lines, updaters, n) :
          /\ DependencySet(updaters[n]) # {}
          /\ lines[GroupOfLine(lines, j)].text
                = "if (" \o Disjunction(DependencySet(updaters[n])) \o ") {"

\* C18: in the emitted update block every updater of the view is in exactly
\* one guarded group, two updaters share a group exactly when their
\* dependency sets are equal, and the guard of a group is a non-empty
\* disjunction with one comparison input.d !== currentInput.d for each
\* element d of that set.
C18_UpdatersGroupedByDependencySet ==
    update_lines.some =>
       /\ EveryUpdaterInOneGroup(update_lines.v, js_view.updaters)
       /\ GroupedByDependencySet(update_lines.v, js_view.updaters)
       /\ GuardsCompareTheSet(update_lines.v, js_view.updaters)

(***************************************************************************)
(* C19: unification is sound over the whole list.  Whenever solve has      *)
(* returned Ok on the constraints taken so far, the two sides of every     *)
(* constraint of the list, the earlier ones included, have the same        *)
(* resolved form in the final context: the same constructors, primitive    *)
(* names and arities, the same fields with the same types once the rows    *)
(* are flattened, the same union tags, and the same class wherever an      *)
(* unbound variable or a row tail is left.                                 *)
(***************************************************************************)
\* the form of a type down to d constructors, variables replaced by what
\* their classes are bound to and rows flattened (the outer extension first);
\* below that, and where a tail chain does not end, the form is cut
RECURSIVE Unfold(_, _, _)
RECURSIVE UnfoldRow(_, _, _, _)
Unfold(h, ty, d) ==
    IF d = 0 THEN [k |-> "Cut"]
    ELSE CASE ty.k = "Prim" -> ty
           [] ty.k = "Var" ->
                LET desc == h.tp[TypeClass(h, ty.point)[2]].descriptor
                IN  IF desc.k # "Bound"
                    THEN [k |-> "Var", class |-> TypeClass(h, ty.point)[2]]
                    ELSE IF desc.ty.k = "Var" THEN Unfold(h, desc.ty, d - 1)
                    ELSE Unfold(h, desc.ty, d)
           [] ty.k = "Array" -> Array(Unfold(h, ty.elem, d - 1))
           [] ty.k = "Fun" ->
                Fun([i \in DOMAIN ty.args |-> Unfold(h, ty.args[i], d - 1)],
                    Unfold(h, ty.ret, d - 1))
           [] ty.k = "Record" ->
                [k |-> "Record", row |-> UnfoldRow(h, ty.row, d - 1, MaxDepth)]
           [] ty.k = "DiscriminatedUnion" ->
                [k |-> "DiscriminatedUnion",
                 map |-> [t \in DOMAIN ty.map |->
                             UnfoldRow(h, ty.map[t], d - 1, MaxDepth)]]

UnfoldRow(h, row, d, n) ==
    IF n = 0 THEN [fields |-> EmptyMap, tail |-> 0]
    ELSE LET desc == h.rp[RowClass(h, row)[2]].descriptor
         IN  IF desc.k = "RowFlex"
             THEN [fields |-> EmptyMap, tail |-> RowClass(h, row)[2]]
             ELSE LET rest == UnfoldRow(h, desc.tail, d, n - 1)
                  IN  [fields |-> [f \in DOMAIN desc.fields |->
                                      Unfold(h, desc.fields[f], d)] @@ rest.fields,
                       tail |-> rest.tail]

SidesAgree(c) == Unfold(heap, c.t1, MaxDepth) = Unfold(heap, c.t2, MaxDepth)

C19_SolvedConstraintsStayEqual ==
    result = "" => \A i \in DOMAIN constraints : SidesAgree(constraints[i])

\* x = y is solved first and leaves both unbound; 'x -> v = string -> y then
\* binds the class, and a row constraint solved in between holds at the end
C19_Witness ==
    /\ result = ""
    /\ constraints = <<Equal(1, Var(1), Var(2)),
                       Equal(5, Record(3), Record(4)),
                       Equal(13, Fun(<<Var(1)>>, Var(3)), Fun(<<Prim("string")>>, Var(2)))>>
    /\ TypeView(heap, Var(1), MaxDepth) = Prim("string")
    /\ TypeView(heap, Var(2), MaxDepth) = Prim("string")
    /\ TypeView(heap, Var(3), MaxDepth) = Prim("string")
    /\ DOMAIN RowView(heap, 3, MaxDepth).fields = {"a", "b"}
    /\ RowView(heap, 3, MaxDepth) = RowView(heap, 4, MaxDepth)

(***************************************************************************)
(* C20: solve terminates.  On every constraint list it returns Ok or a     *)
(* TypeError after finitely many unify and unify_rows steps and finitely   *)
(* many fresh row points, the list that unifies two extended rows with a   *)
(* field each that the other lacks over one tail point included: no run    *)
(* of the model uses up the MaxDepth nested calls it is given.             *)
(***************************************************************************)
C20_SolveTerminates == result # "Diverge"

(***************************************************************************)
(* C21: how unify names a mismatch.  cl and cr are the two sides of the    *)
(* last constraint as canonical_type gives them in the context before it.  *)
(***************************************************************************)
LeftForm == canonical_type(prev, Last.t1, MaxDepth)
RightForm == canonical_type(prev, Last.t2, MaxDepth)

\* both sides of the last constraint canonicalise to types that are no variables
NonVariablePair ==
    /\ Len(constraints) > 0
    /\ ~LeftForm.div /\ ~RightForm.div
    /\ LeftForm.ty.k # "Var" /\ RightForm.ty.k # "Var"

\* the last constraint bound no variable, merged no class and extended no
\* row: every point there was resolves as before (canonical_type may have
\* added canonical copies of rows)
NothingUnified ==
    /\ \A p \in DOMAIN prev.tp :
          TypeView(heap, Var(p), MaxDepth) = TypeView(prev, Var(p), MaxDepth)
    /\ \A r \in DOMAIN prev.rp :
          RowView(heap, r, MaxDepth) = RowView(prev, r, MaxDepth)

\* C21: two Prim of different names give PrimMismatch, two Fun of different
\* argument counts ArityMismatch with no argument unified, two unions of
\* different tag sets UnionKeyMismatch with no branch row unified, any other
\* two different constructors StructMismatch; and solve on the list, and on
\* the list with any further constraint after it, returns that first error
\* and the context the failing constraint left.
C21_MismatchesAreClassified ==
    /\ NonVariablePair =>
          LET cl == LeftForm.ty
              cr == RightForm.ty
          IN  /\ (cl.k = "Prim" /\ cr.k = "Prim" /\ cl.name # cr.name)
                    => result = "PrimMismatch"
              /\ (cl.k = "Fun" /\ cr.k = "Fun" /\ Len(cl.args) # Len(cr.args))
                    => result = "ArityMismatch" /\ NothingUnified
              /\ (cl.k = "DiscriminatedUnion" /\ cr.k = "DiscriminatedUnion"
                     /\ DOMAIN cl.map # DOMAIN cr.map)
                    => result = "UnionKeyMismatch" /\ NothingUnified
              /\ cl.k # cr.k => result = "StructMismatch"
    /\ solve(SolveHeap, constraints) = [h |-> heap, err |-> result]
    /\ result # "" =>
          \A c \in MismatchPool :
             solve(SolveHeap, Append(constraints, c)) = [h |-> heap, err |-> result]

\* 'x -> v against (string, 'y) -> number after v was bound: the arity error,
\* with x still unbound
C21_Witness ==
    /\ constraints = <<Equal(1, Var(3), Prim("number")),
                       Equal(4, Fun(<<Var(1)>>, Var(3)),
                                Fun(<<Prim("string"), Var(2)>>, Prim("number")))>>
    /\ result = "ArityMismatch"
    /\ TypeView(heap, Var(1), MaxDepth).k = "Var"
    /\ TypeView(heap, Var(3), MaxDepth) = Prim("number")

(***************************************************************************)
(* C22: the marks of merged variables.  The points merged into the class   *)
(* of p are the points of MarksHeap that now have p's root; each began as  *)
(* a class of its own with the mark MarksHeap gives it.                    *)
(***************************************************************************)
MergedInto(p) ==
    {q \in DOMAIN MarksHeap.tp : TypeClass(heap, q) = TypeClass(heap, p)}
RowsMergedInto(r) ==
    {t \in DOMAIN MarksHeap.rp : RowClass(heap, t) = RowClass(heap, r)}

MarkOf(p) == get(heap.tp, p).descriptor.mark
RowMarkOf(r) == get(heap.rp, r).descriptor.mark
FirstMark(p) == MarksHeap.tp[p].descriptor.mark
FirstRowMark(r) == MarksHeap.rp[r].descriptor.mark

\* C22: after any successful unifications between unbound variables the mark
\* of a class is Named (with the name of a merged point) whenever some point
\* merged into it was Named and Fresh only if every merged point was Fresh,
\* for type points and for flexible row tails; and when the two sides of a
\* unification are both Named the class keeps the name of the left side.
C22_NamedMarksSurviveUnion ==
    /\ result = ""
    /\ \A p \in DOMAIN MarksHeap.tp :
          /\ (\E q \in MergedInto(p) : FirstMark(q).k = "Named")
                => MarkOf(p) \in {FirstMark(q) : q \in {m \in MergedInto(p) :
                                                         FirstMark(m).k = "Named"}}
          /\ MarkOf(p).k = "Fresh"
                => \A q \in MergedInto(p) : FirstMark(q).k = "Fresh"
    /\ \A r \in DOMAIN MarksHeap.rp :
          /\ (\E t \in RowsMergedInto(r) : FirstRowMark(t).k = "Named")
                => RowMarkOf(r).k = "Named"
          /\ RowMarkOf(r).k = "Fresh"
                => \A t \in RowsMergedInto(r) : FirstRowMark(t).k = "Fresh"
    /\ (/\ Len(constraints) > 0
        /\ Last.t1.k = "Var"
        /\ get(prev.tp, Last.t1.point).descriptor.mark.k = "Named"
        /\ get(prev.tp, Last.t2.point).descriptor.mark.k = "Named")
       => MarkOf(Last.t2.point) = get(prev.tp, Last.t1.point).descriptor.mark

\* a fresh point joined the class of y, then y was unified with x on its
\* right: the class of the three is named y; two row tails were merged
C22_Witness ==
    /\ constraints = <<Equal(0, Var(3), Var(2)), Equal(0, Var(2), Var(1)),
                       Equal(0, Record(1), Record(3))>>
    /\ MergedInto(1) = {1, 2, 3}
    /\ MarkOf(1) = Named("y")
    /\ MarkOf(4).k = "Fresh"
    /\ RowsMergedInto(1) = {1, 3}

(***************************************************************************)
(* C23: what Env.get returns.                                              *)
(***************************************************************************)
LastCall == env_log[Len(env_log)]

\* the scopes of the Env before the last call that bind name
Binders(name) ==
    {i \in DOMAIN env_was.env.scopes : name \in DOMAIN env_was.env.scopes[i]}

Innermost(name) == CHOOSE i \in Binders(name) : \A j \in Binders(name) : j <= i

\* the type points the last call created
NewPoints == DOMAIN env_t.infer_ctx.tp \ DOMAIN env_was.infer_ctx.tp

\* C23: get(name) returns the binding of the innermost scope that binds name;
\* else the globals entry; else for a built-in name a variable just made and
\* bound to a function type, globals left as they were; else one new unbound
\* variable named after name, which it adds to globals and which is all the
\* call creates.  No call removes or changes a globals entry (so later gets
\* return the same variable), push_scope and pop_scope leave globals and the
\* context alone, and a get answered by a scope or by globals changes nothing.
C23_GetFindsInnermostThenGlobal ==
    Len(env_log) > 0 =>
       /\ \A n \in DOMAIN env_was.env.globals :
             /\ n \in DOMAIN env_t.env.globals
             /\ env_t.env.globals[n] = env_was.env.globals[n]
       /\ LastCall.op # "get" =>
             /\ env_t.env.globals = env_was.env.globals
             /\ env_t.infer_ctx = env_was.infer_ctx
       /\ LastCall.op = "get" =>
             LET name == LastCall.name
                 ty == LastCall.ty
             IN  IF Binders(name) # {}
                 THEN /\ ty = env_was.env.scopes[Innermost(name)][name]
                      /\ env_t = env_was
                 ELSE IF name \in DOMAIN env_was.env.globals
                 THEN /\ ty = env_was.env.globals[name]
                      /\ env_t = env_was
                 ELSE IF name \in DOMAIN BUILTINS
                 THEN /\ env_t.env = env_was.env
                      /\ ty.k = "Var" /\ ty.point \in NewPoints
                      /\ env_t.infer_ctx.tp[ty.point].descriptor.k = "Bound"
                      /\ env_t.infer_ctx.tp[ty.point].descriptor.ty.k = "Fun"
                      /\ Len(env_t.infer_ctx.tp[ty.point].descriptor.ty.args)
                            = Len(BUILTINS[name].args)
                 ELSE /\ env_t.env.scopes = env_was.env.scopes
                      /\ env_t.env.globals = (name :> ty) @@ env_was.env.globals
                      /\ ty.k = "Var" /\ NewPoints = {ty.point}
                      /\ env_t.infer_ctx.tp[ty.point].descriptor = Unbound(Named(name))
                      /\ env_t.infer_ctx.rp = env_was.infer_ctx.rp

\* get a, push {a: string}, get a, pop, get a: the variable 'a, then string,
\* then the same variable again
C23_Witness ==
    /\ Len(env_log) = 5
    /\ env_log[1].op = "get" /\ env_log[1].name = "a" /\ env_log[1].ty.k = "Var"
    /\ env_log[2] = [op |-> "push_scope", scope |-> "a" :> Prim("string")]
    /\ env_log[3] = [op |-> "get", name |-> "a", ty |-> Prim("string")]
    /\ env_log[4].op = "pop_scope"
    /\ env_log[5] = env_log[1]
    /\ DOMAIN env_t.env.globals = {"a"}

(***************************************************************************)
(* C24: the instances of built-ins.  A get of a built-in name that no      *)
(* scope answered returned a variable bound to the instance; Items lists   *)
(* the arguments and then the result, of the scheme and of the instance.   *)
(***************************************************************************)
BuiltinGets ==
    {i \in DOMAIN env_log : /\ env_log[i].op = "get"
                            /\ env_log[i].name \in DOMAIN BUILTINS
                            /\ env_log[i].ty.k = "Var"}

SchemeItems(i) ==
    Append(BUILTINS[env_log[i].name].args, BUILTINS[env_log[i].name].ret)

InstanceOf(i) == env_t.infer_ctx.tp[env_log[i].ty.point].descriptor.ty

InstanceItems(i) == Append(InstanceOf(i).args, InstanceOf(i).ret)

InstancePoints(i) ==
    {InstanceItems(i)[k].point :
        k \in {m \in DOMAIN SchemeItems(i) : SchemeItems(i)[m].k = "Var"}}

\* boolean used at strings and boolean used at numbers, as infer states a call
UsedAt(i, name) ==
    Equal(0, env_log[i].ty,
          Fun(<<Prim("boolean"), Prim(name), Prim(name)>>, Prim(name)))

\* C24: each lookup of a built-in makes one fresh point for each variable of
\* the scheme: two items of the instance are the same point exactly when
\* they are the same scheme variable, primitive items are copied, the points
\* are new and unbound, and no point is shared with another lookup.  So one
\* use of boolean cannot take a string and a number (its second and third
\* argument and its result are one type), while two uses in the same
\* context, one at strings and one at numbers, are solved without an error.
C24_BuiltinInstancesShareNothing ==
    /\ \A i \in BuiltinGets :
          /\ InstanceOf(i).k = "Fun"
          /\ Len(InstanceItems(i)) = Len(SchemeItems(i))
          /\ \A k \in DOMAIN SchemeItems(i) :
                IF SchemeItems(i)[k].k = "Prim"
                THEN InstanceItems(i)[k] = Prim(SchemeItems(i)[k].name)
                ELSE /\ InstanceItems(i)[k].k = "Var"
                     /\ env_t.infer_ctx.tp[InstanceItems(i)[k].point].kind = "Info"
                     /\ env_t.infer_ctx.tp[InstanceItems(i)[k].point].descriptor.k
                           = "Unbound"
          /\ \A k, m \in DOMAIN SchemeItems(i) :
                (SchemeItems(i)[k].k = "Var" /\ SchemeItems(i)[m].k = "Var")
                   => (SchemeItems(i)[k].id = SchemeItems(i)[m].id
                         <=> InstanceItems(i)[k].point = InstanceItems(i)[m].point)
          /\ \A j \in BuiltinGets \ {i} :
                /\ env_log[i].ty # env_log[j].ty
                /\ InstancePoints(i) \cap InstancePoints(j) = {}
          /\ i = Len(env_log) =>
                /\ InstancePoints(i) \subseteq NewPoints
                /\ NewPoints = InstancePoints(i) \cup {env_log[i].ty.point}
    /\ \A i \in BuiltinGets :
          env_log[i].name = "boolean" =>
             /\ solve(env_t.infer_ctx, <<UsedAt(i, "string")>>).err = ""
             /\ solve(env_t.infer_ctx,
                      <<Equal(0, env_log[i].ty,
                              Fun(<<Prim("boolean"), Prim("string"), Prim("number")>>,
                                  Prim("string")))>>).err = "PrimMismatch"
             /\ \A j \in BuiltinGets \ {i} :
                   env_log[j].name = "boolean" =>
                      solve(env_t.infer_ctx,
                            <<UsedAt(i, "string"), UsedAt(j, "number")>>).err = ""

\* boolean and lookup were looked up, boolean twice
C24_Witness ==
    /\ \E i, j \in BuiltinGets :
          i # j /\ env_log[i].name = "boolean" /\ env_log[j].name = "boolean"
    /\ \E i \in BuiltinGets : env_log[i].name = "lookup"
    /\ Cardinality(DOMAIN env_t.infer_ctx.tp) = 7

(***************************************************************************)
(* C25                                                                     *)
(***************************************************************************)
\* The extensions of the chain that bind the name, outermost first.
Binding(name) == {i \in 1..Len(flat.chain) : name \in DOMAIN flat.chain[i]}

Outermost(name) ==
    flat.chain[CHOOSE i \in Binding(name) : \A j \in Binding(name) : i <= j][name]

Repeated == {name \in FlatNames : Cardinality(Binding(name)) > 1}

\* C25: when a field name occurs in more than one extension of a chain, the
\* solver's gather_fields, the instantiation's collect_row_fields and the
\* rendering's row_to_fields all give the name the type of its outermost
\* extension, so the row, its instance and its rendered type agree on it.
C25_FlatteningsTakeOutermost ==
    flat.some =>
       \A name \in Repeated :
          /\ flat.solver.done => flat.solver.fields[name] = Outermost(name)
          /\ flat.instance.done => flat.instance.fields[name] = Outermost(name)
          /\ flat.rendered.done =>
                flat.rendered.fields[name] = SimpleType(Outermost(name).name)

\* The part of C25 that holds: gather_fields takes the outermost extension.
C25_GatherTakesOutermost ==
    (flat.some /\ flat.solver.done) =>
       \A name \in Repeated : flat.solver.fields[name] = Outermost(name)

\* A chain that repeats a name with two types, flattened three ways.
C25_Witness ==
    /\ flat.some
    /\ flat.solver.done /\ flat.instance.done /\ flat.rendered.done
    /\ \E name \in Repeated :
          \E i, j \in Binding(name) : flat.chain[i][name] # flat.chain[j][name]

(***************************************************************************)
(* C26                                                                     *)
(***************************************************************************)
\* The node reached from p by following at most n links, read only.
RECURSIVE Follow(_, _, _)
Follow(store, p, n) ==
    IF store[p].kind = "Info" \/ n = 0 THEN p
    ELSE Follow(store, store[p].parent, n - 1)

RootOf(store, p) == Follow(store, p, Len(store))

RootsOfClass(p) == {q \in cls[p] : points[q].kind = "Info"}

LinksEndInOneRoot ==
    \A p \in DOMAIN points :
       /\ points[RootOf(points, p)].kind = "Info"
       /\ RootsOfClass(p) = {RootOf(points, p)}
       /\ redundant(points, p) <=> p # RootOf(points, p)

CompressedAfterGetAndSet ==
    ret.op \in {"get", "set"} =>
       \/ points[ret.p].kind = "Info"
       \/ points[points[ret.p].parent].kind = "Info"

RankOf(store, p) == store[RootOf(store, p)].rank

\* what union(a, b, _) did to the links and the ranks
UnionByRank(a, b) ==
    LET root_a == RootOf(points, a)
        root_b == RootOf(points, b)
        higher == IF RankOf(points, a) < RankOf(points, b) THEN root_b ELSE root_a
        lower == IF RankOf(points, a) < RankOf(points, b) THEN root_a ELSE root_b
    IN  IF root_a = root_b
        THEN \A q \in DOMAIN points :
                points[q].kind = "Info" =>
                   points'[q].kind = "Info" /\ points'[q].rank = points[q].rank
        ELSE /\ points'[lower] = Link(higher)
             /\ points'[higher].kind = "Info"
             /\ points'[higher].rank =
                   IF RankOf(points, a) = RankOf(points, b)
                   THEN points[higher].rank + 1 ELSE points[higher].rank
             /\ \A q \in DOMAIN points \ {higher, lower} :
                   points[q].kind = "Info" =>
                      points'[q].kind = "Info" /\ points'[q].rank = points[q].rank

\* C26: after any sequence of fresh/get/set/union calls the links from every
\* point end in a root, every class has exactly one root, redundant(p) holds
\* exactly when p is not the root of its class, after get(p) or set(p, _) the
\* point p is the root or links directly to it, and union makes the root of
\* higher rank the parent and raises a rank only when the two ranks are equal.
C26_LinksEndInOneRootAndUnionIsByRank ==
    /\ [](LinksEndInOneRoot /\ CompressedAfterGetAndSet)
    /\ [][ret'.op = "union" =>
             \A b \in DOMAIN points :
                points' = union(points, ret'.p, b, ret'.d) =>
                   UnionByRank(ret'.p, b)]_vars

\* a class of four under a root of rank 2 whose other three members all link
\* directly to the root, which only a compressing get can have produced
C26_Witness ==
    /\ ret.op = "get"
    /\ redundant(points, ret.p)
    /\ Cardinality(cls[ret.p]) = 4
    /\ RankOf(points, ret.p) = 2
    /\ \A q \in cls[ret.p] : q # RootOf(points, ret.p) =>
          points[q] = Link(RootOf(points, ret.p))

(***************************************************************************)
(* C27, C28, C29                                                           *)
(***************************************************************************)
\* The views compile has produced: the pending one and the solved ones.
Produced ==
    (IF pending.some THEN {[root |-> pending.v.root, context |-> pending.v.context]}
     ELSE {})
    \cup {[root |-> compiled_views[i].root, context |-> compiled_views[i].context] :
            i \in DOMAIN compiled_views}

\* A view and the sub-views of its <for>, <if> and <switch>, to any depth.
RECURSIVE SubViews(_)
SubViews(v) ==
    {v} \cup UNION {SubViews(v.context.child_views[i]) :
                      i \in DOMAIN v.context.child_views}

AllViews == UNION {SubViews(v) : v \in Produced}

\* The indices of the Refs in an expression, inlined elements included.
RECURSIVE RefsIn(_)
RefsIn(expr) ==
    IF expr.k = "Ref" THEN {expr.idx}
    ELSE IF expr.k = "Element"
    THEN UNION {RefsIn(expr.children[i]) : i \in DOMAIN expr.children}
    ELSE {}

Dynamic(node) == \E i \in DOMAIN node.attrs : has_bindings(node.attrs[i].value)

ChildNamed(node, name) ==
    {i \in DOMAIN node.children : node.children[i].k = "Element"
                                  /\ node.children[i].name = name}

\* expr is what the node was lowered to in the context: each Ref leads to the
\* constructor of this very node, each sub-view to the body it was made for.
RECURSIVE Lowers(_, _, _)
Lowers(expr, node, ctx) ==
    LET sub(idx) == ctx.child_views[idx + 1]
        sub_body(idx, child) ==
            /\ idx < Len(ctx.child_views)
            /\ Lowers(sub(idx).root, child, sub(idx).context)
        branch(opt, name) ==
            /\ opt.some <=> ChildNamed(node, name) # {}
            /\ opt.some =>
                  \A i \in ChildNamed(node, name) :
                     sub_body(opt.v, node.children[i].children[1])
    IN
    CASE node.k = "Text" -> expr = JsText(node.content)
      [] node.k = "Expr" ->
            /\ expr.k = "Ref"
            /\ expr.idx < Len(ctx.constructors)
            /\ ctx.constructors[expr.idx + 1] = JsExprOf(node.expr)
            /\ \E u \in DOMAIN ctx.updaters :
                  /\ ctx.updaters[u].kind = "Text"
                  /\ ctx.updaters[u].node_idx = expr.idx
                  /\ ctx.updaters[u].value = ExprValue(node.expr)
      [] node.k = "Element" /\ node.name = "for" ->
            /\ expr.k = "LoopElements"
            /\ expr.idx < Len(ctx.for_loops)
            /\ sub_body(ctx.for_loops[expr.idx + 1].child_view_idx, node.children[1])
      [] node.k = "Element" /\ node.name = "if" ->
            /\ expr.k = "ConditionalElement"
            /\ expr.idx < Len(ctx.ifs)
            /\ branch(ctx.ifs[expr.idx + 1].then_view_idx, "then")
            /\ branch(ctx.ifs[expr.idx + 1].else_view_idx, "else")
      [] node.k = "Element" /\ node.name = "switch" ->
            /\ expr.k = "SwitchElement"
            /\ expr.idx < Len(ctx.switches)
            /\ Len(ctx.switches[expr.idx + 1].case_view_idxs) = Len(node.children)
            /\ \A i \in DOMAIN node.children :
                  sub_body(ctx.switches[expr.idx + 1].case_view_idxs[i],
                       node.children[i].children[1])
      [] node.k = "Element" /\ node.name \notin {"for", "if", "switch", "mount"} ->
            /\ expr.k = IF Dynamic(node) THEN "Ref" ELSE "Element"
            /\ Dynamic(node) => expr.idx < Len(ctx.constructors)
            /\ LET element == IF Dynamic(node) THEN ctx.constructors[expr.idx + 1]
                              ELSE expr
               IN  /\ element.k = "Element"
                   /\ element.tag = node.name
                   /\ Len(element.children) = Len(node.children)
                   /\ \A i \in DOMAIN node.children :
                         Lowers(element.children[i], node.children[i], ctx)
            /\ \A i \in DOMAIN node.attrs :
                  has_bindings(node.attrs[i].value) =>
                     \E u \in DOMAIN ctx.updaters :
                        /\ ctx.updaters[u].kind \in {"Prop", "Dataset"}
                        /\ ctx.updaters[u].node_idx = expr.idx
                        /\ ctx.updaters[u].value = node.attrs[i].value
      [] OTHER -> TRUE

\* Every Ref and every updater of the view points into its own constructors,
\* and an updater at the kind of constructor it updates.
PointsInside(v) ==
    LET ctx == v.context
        slot(i) == ctx.constructors[i + 1]
    IN  /\ \A i \in RefsIn(v.root) : i < Len(ctx.constructors)
        /\ \A k \in DOMAIN ctx.constructors :
              \A i \in RefsIn(ctx.constructors[k]) : i < Len(ctx.constructors)
        /\ \A u \in DOMAIN ctx.updaters :
              /\ ctx.updaters[u].node_idx < Len(ctx.constructors)
              /\ ctx.updaters[u].kind = "Text" =>
                    slot(ctx.updaters[u].node_idx) = JsExprOf(ctx.updaters[u].value.expr)
              /\ ctx.updaters[u].kind = "Prop" =>
                    /\ slot(ctx.updaters[u].node_idx).k = "Element"
                    /\ \E i \in DOMAIN slot(ctx.updaters[u].node_idx).props :
                          slot(ctx.updaters[u].node_idx).props[i]
                             = <<ctx.updaters[u].prop, ctx.updaters[u].value>>
              /\ ctx.updaters[u].kind = "Dataset" =>
                    /\ slot(ctx.updaters[u].node_idx).k = "Element"
                    /\ \E i \in DOMAIN slot(ctx.updaters[u].node_idx).dataset :
                          slot(ctx.updaters[u].node_idx).dataset[i]
                             = <<ctx.updaters[u].key, ctx.updaters[u].value>>

\* C27: in every CompileContext compile_node produces, each Ref(i) and each
\* updater's node_idx i is below the number of constructors and
\* constructors[i] is the node the Ref or updater was made for, each
\* sub-view counting in its own context; an element has a constructor slot
\* exactly when one of its attributes holds an expression and is inlined in
\* its parent otherwise.
C27_RefsAndUpdatersPointAtTheirNode ==
    /\ \A v \in AllViews : PointsInside(v)
    /\ \A v \in Produced : Lowers(v.root, prog[1].node, v.context)

\* a view in which an element with bound attributes holds a sub-view whose
\* own context has a constructor, next to a binding
C27_Witness ==
    /\ pending.some
    /\ \E v \in AllViews :
          /\ v.context.child_views # << >>
          /\ \E i \in DOMAIN v.context.constructors :
                /\ v.context.constructors[i].k = "Element"
                /\ RefsIn(v.context.constructors[i]) # {}
          /\ \E w \in SubViews(v) \ {v} : Len(w.context.constructors) >= 2

\* C28: every Ref(j) inside constructors[i] has j < i, so the build block,
\* which declares node_i in index order and the root last, never names a
\* node constant before its declaration.
C28_ConstructorsReferEarlierOnes ==
    \A v \in AllViews :
       \A i \in DOMAIN v.context.constructors :
          \A j \in RefsIn(v.context.constructors[i]) : j < i - 1

\* a constructor that refers to two earlier ones, one through an inlined
\* element
C28_Witness ==
    \E v \in AllViews :
       \E i \in DOMAIN v.context.constructors :
          /\ Cardinality(RefsIn(v.context.constructors[i])) >= 2
          /\ \E k \in DOMAIN v.context.constructors[i].children :
                /\ v.context.constructors[i].children[k].k = "Element"
                /\ RefsIn(v.context.constructors[i].children[k]) # {}

IsFor(node) == node.k = "Element" /\ node.name = "for"

\* Some <for>, <then>, <else> or <case> in the node has a <for> as its body.
RECURSIVE HasForBody(_)
HasForBody(node) ==
    /\ node.k = "Element"
    /\ \/ /\ node.name \in {"for", "then", "else", "case"}
          /\ Len(node.children) = 1
          /\ IsFor(node.children[1])
       \/ \E i \in DOMAIN node.children : HasForBody(node.children[i])

\* C29: compile_view returns an error whenever the node it compiles lowers
\* to LoopElements: a <for> that is the single child of a <view>, <for>,
\* <then>, <else> or <case> is rejected, and no ViewDefinition and no child
\* view is recorded for it.
C29_ForAsViewRootIsRejected ==
    /\ (trace # << >> /\ (IsFor(prog[1].node) \/ HasForBody(prog[1].node))) =>
          /\ error = "ForRoot"
          /\ ~pending.some
          /\ compiled_views = << >>
    /\ \A v \in AllViews : v.root.k # "LoopElements"

\* a <for> as the body of an <else>, inside an element, was compiled
C29_Witness ==
    /\ trace # << >>
    /\ error = "ForRoot"
    /\ ~IsFor(prog[1].node)
    /\ \E i \in DOMAIN prog[1].node.children :
          /\ prog[1].node.children[i].k = "Element"
          /\ prog[1].node.children[i].name = "if"
          /\ HasForBody(prog[1].node.children[i])
          /\ ChildNamed(prog[1].node.children[i], "else") # {}

(***************************************************************************)
(* C30                                                                     *)
(***************************************************************************)
\* C30: the diagnostics collect returns for a document are in the order of
\* their ranges, by (start line, start character, end line, end character),
\* also when the loader returned several parse errors.
C30_DiagnosticsAreOrderedBySpan ==
    diagnostics.some =>
       \A i, j \in DOMAIN diagnostics.v :
          i < j => ~range_lt(diagnostics.v[j], diagnostics.v[i])

\* two elements, one inside the other, each closed by the wrong tag, on
\* different lines
C30_Witness ==
    /\ diagnostics.some
    /\ Len(diagnostics.v) = 2
    /\ diagnostics.v[1].range.start.line # diagnostics.v[2].range.start.line
    /\ document[1] = "<a" /\ document[2] = "<a"

====
